---- MODULE Spec2Model ----
(***************************************************************************)
(* A model of the core engine of the yaz modal editor: the document map,   *)
(* the invertible primitive modifications, transactions, the undo/redo     *)
(* history, the transaction generators of the shipped modes and the modal  *)
(* key-driven editor.                                                      *)
(*                                                                         *)
(* A buffer (ropey::Rope) is a sequence of characters; a character is a    *)
(* short string naming it ("a", "nl", "ee", ...).  All indices are         *)
(* 0-based character indices as in the source; Option<usize> is an Int     *)
(* with None == -1.                                                        *)
(***************************************************************************)
EXTENDS Integers, Sequences, FiniteSets, TLC

VARIABLES
    doc_map,       \* HistoricalEditorState.doc_map : DocumentMap
    prev,          \* EditorHistory.prev (front of the deque = index 1)
    next,          \* EditorHistory.next (front of the deque = index 1)
    active_modes,  \* ModalEditor.active_modes (front of the deque = index 1)
    curr_combo,    \* ModalEditor.curr_combo
    curr_cmd,      \* CommandMode.curr_cmd
    pending,       \* a Transaction under construction (append_mod)
    pre,           \* the state before the last operation
    last,          \* the last operation and what it returned
    nsteps,        \* number of operations performed so far
    overflow_checks, \* the build's profile: debug (TRUE) or release (FALSE)
    view,          \* ModalEditor.view : DocumentView (max_width, max_height)
    incoming,      \* EditorServer.incoming_channel: the requests not yet received
    outgoing,      \* EditorServer.outgoing_channels: per connection, the messages in flight
    worker,        \* the editor worker thread: its position in the loop of run
    subscribers,   \* the renderer and highlighter threads: their positions
    typing,        \* what the user will still do at the terminal
    evt_chan,      \* RendererServer.evt_chan: the frontend's events not yet taken
    stylization_points \* Stylizer.stylization_points

\* The state of the three servers
server_vars ==
    <<view, typing, evt_chan, incoming, outgoing, worker, subscribers, stylization_points>>

vars == <<doc_map, prev, next, active_modes, curr_combo, curr_cmd,
          pending, pre, last, nsteps, overflow_checks, server_vars>>

\* No server has been constructed
NoServers ==
    /\ view = <<>>
    /\ typing = <<>>
    /\ evt_chan = <<>>
    /\ incoming = <<>>
    /\ outgoing = <<>>
    /\ worker = <<>>
    /\ subscribers = <<>>
    /\ stylization_points = <<>>

-----------------------------------------------------------------------------
(* Generic helpers *)

None == -1

\* Larger than every index of the model.
BigLen == 1000000

Min2(a, b) == IF a <= b THEN a ELSE b
Max2(a, b) == IF a >= b THEN a ELSE b

\* usize::saturating_sub
SatSub(a, b) == IF a >= b THEN a - b ELSE 0

SetMax(S) == CHOOSE m \in S : \A x \in S : x <= m

SetMin(S) == CHOOSE m \in S : \A x \in S : m <= x

Reverse(s) == [i \in 1..Len(s) |-> s[Len(s) + 1 - i]]

\* s[a..b) with 0-based half-open bounds
Slice(s, a, b) == SubSeq(s, a + 1, b)

MapPut(f, k, v) == [i \in DOMAIN f \cup {k} |-> IF i = k THEN v ELSE f[i]]

MapDel(f, k) == [i \in DOMAIN f \ {k} |-> f[i]]

-----------------------------------------------------------------------------
(* Characters *)

\* "ee" is a precomposed two-byte letter (U+00E9), "cm" a combining mark
\* (U+0301, Grapheme_Extend, two bytes, zero width); "nl" and "tab" are
\* control characters, "sp" the space.
ByteLen(c) == IF c \in {"ee", "cm"} THEN 2 ELSE 1

\* str::len(): the length in bytes
RECURSIVE StrByteLen(_)
StrByteLen(s) == IF s = <<>> THEN 0 ELSE ByteLen(Head(s)) + StrByteLen(Tail(s))

\* str::chars().count()
CharCount(s) == Len(s)

-----------------------------------------------------------------------------
(* Documents and the document map *)

TextSelection(head, tail) == [head |-> head, tail |-> tail]

DefaultSelection == TextSelection(0, None)

Document(source, buf, sels, dirty) ==
    [source |-> source, buf |-> buf, selections |-> sels, dirty |-> dirty]

\* DocumentSource(None); a Some(path) is the non-empty sequence of the
\* path's characters.
NoSource == <<>>

\* The path given on the command line
FilePath == <<"f">>

\* Document::new_empty
NewEmpty == Document(NoSource, <<>>, (0 :> DefaultSelection), FALSE)

\* Document::new_from_file when the file could be read
NewFromFile(content) == Document(FilePath, content, (0 :> DefaultSelection), FALSE)

\* A placeholder where a record carries no document.
NoDoc == [nodoc |-> TRUE]

DocumentMap(cur, docs) == [cur |-> cur, docs |-> docs]

DefaultDocumentMap == DocumentMap(0, (0 :> NewEmpty))

contains_key(dm, id) == id \in DOMAIN dm.docs

get_unused_id(dm) ==
    IF DOMAIN dm.docs = {} THEN 0 ELSE SetMax(DOMAIN dm.docs) + 1

HasCurrDoc(dm) == contains_key(dm, dm.cur)

CurrDoc(dm) == dm.docs[dm.cur]

-----------------------------------------------------------------------------
(* Primitive modifications *)

Prim(k, doc, sel, a, b, s, d, ts) ==
    [k |-> k, doc |-> doc, sel |-> sel, a |-> a, b |-> b, s |-> s, d |-> d, ts |-> ts]

InsText(doc, at, s)     == Prim("InsText", doc, 0, at, 0, s, NoDoc, DefaultSelection)
DelRange(doc, a, b)     == Prim("DelRange", doc, 0, a, b, <<>>, NoDoc, DefaultSelection)
SetHead(doc, sel, i)    == Prim("SetHead", doc, sel, i, 0, <<>>, NoDoc, DefaultSelection)
SetTail(doc, sel, t)    == Prim("SetTail", doc, sel, t, 0, <<>>, NoDoc, DefaultSelection)
SwitchDoc(id)           == Prim("SwitchDoc", id, 0, 0, 0, <<>>, NoDoc, DefaultSelection)
CreateDoc(d)            == Prim("CreateDoc", 0, 0, 0, 0, <<>>, d, DefaultSelection)
PopDoc(id)              == Prim("PopDoc", id, 0, 0, 0, <<>>, NoDoc, DefaultSelection)
DeleteSel(doc, sel)     == Prim("DeleteSel", doc, sel, 0, 0, <<>>, NoDoc, DefaultSelection)
CreateSel(doc, sel, ts) == Prim("CreateSel", doc, sel, 0, 0, <<>>, NoDoc, ts)

NoPrim == Prim("None", 0, 0, 0, 0, <<>>, NoDoc, DefaultSelection)

\* Option<inverse> together with the state the call leaves behind.
Applied(dm, inv) == [ok |-> TRUE, dm |-> dm, inv |-> inv]
Failed(dm)       == [ok |-> FALSE, dm |-> dm, inv |-> NoPrim]

\* Rope::get_slice(a..b).is_some()
SliceOk(buf, a, b) == a <= b /\ b <= Len(buf)

\* The length InsText's inverse deletes.
InsertedLen(s) == StrByteLen(s)

WithBuf(dm, id, buf) ==
    [dm EXCEPT !.docs = MapPut(dm.docs, id, [dm.docs[id] EXCEPT !.buf = buf])]

WithSel(dm, id, sid, ts) ==
    [dm EXCEPT !.docs = MapPut(dm.docs, id,
        [dm.docs[id] EXCEPT !.selections = MapPut(dm.docs[id].selections, sid, ts)])]

\* BufMod::apply with DelRange removing what lies within the buffer before
\* it finds the range out of bounds
ApplyBufModRemovingFirst(pm, dm) ==
    IF ~contains_key(dm, pm.doc) THEN Failed(dm)
    ELSE LET buf == dm.docs[pm.doc].buf IN
         IF pm.k = "InsText" THEN
             IF pm.a > Len(buf) THEN Failed(dm)
             ELSE Applied(WithBuf(dm, pm.doc,
                              Slice(buf, 0, pm.a) \o pm.s \o Slice(buf, pm.a, Len(buf))),
                          DelRange(pm.doc, pm.a, pm.a + InsertedLen(pm.s)))
         ELSE
             IF pm.a <= Len(buf) /\ pm.b > Len(buf)
             THEN Failed(WithBuf(dm, pm.doc, Slice(buf, 0, pm.a)))
             ELSE IF ~SliceOk(buf, pm.a, pm.b) THEN Failed(dm)
             ELSE Applied(WithBuf(dm, pm.doc,
                              Slice(buf, 0, pm.a) \o Slice(buf, pm.b, Len(buf))),
                          InsText(pm.doc, pm.a, Slice(buf, pm.a, pm.b)))

\* BufMod::apply through PrimitiveMod::Text
ApplyBufMod(pm, dm) ==
    IF ~contains_key(dm, pm.doc) THEN Failed(dm)
    ELSE LET buf == dm.docs[pm.doc].buf IN
         IF pm.k = "InsText" THEN
             IF pm.a > Len(buf) THEN Failed(dm)
             ELSE Applied(WithBuf(dm, pm.doc,
                              Slice(buf, 0, pm.a) \o pm.s \o Slice(buf, pm.a, Len(buf))),
                          DelRange(pm.doc, pm.a, pm.a + InsertedLen(pm.s)))
         ELSE
             IF ~SliceOk(buf, pm.a, pm.b) THEN Failed(dm)
             ELSE Applied(WithBuf(dm, pm.doc,
                              Slice(buf, 0, pm.a) \o Slice(buf, pm.b, Len(buf))),
                          InsText(pm.doc, pm.a, Slice(buf, pm.a, pm.b)))

\* SelectionMod::apply through PrimitiveMod::Sel
ApplySelMod(pm, dm) ==
    IF ~contains_key(dm, pm.doc) THEN Failed(dm)
    ELSE IF pm.sel \notin DOMAIN dm.docs[pm.doc].selections THEN Failed(dm)
    ELSE LET sel == dm.docs[pm.doc].selections[pm.sel] IN
         IF pm.k = "SetHead"
         THEN Applied(WithSel(dm, pm.doc, pm.sel, [sel EXCEPT !.head = pm.a]),
                      SetHead(pm.doc, pm.sel, sel.head))
         ELSE Applied(WithSel(dm, pm.doc, pm.sel, [sel EXCEPT !.tail = pm.a]),
                      SetTail(pm.doc, pm.sel, sel.tail))

\* DocMapMod::apply through PrimitiveMod::DocMap
ApplyDocMapMod(pm, dm) ==
    CASE pm.k = "SwitchDoc" ->
            IF contains_key(dm, pm.doc)
            THEN Applied([dm EXCEPT !.cur = pm.doc], SwitchDoc(dm.cur))
            ELSE Failed(dm)
      [] pm.k = "CreateDoc" ->
            LET new_doc_id == get_unused_id(dm) IN
            Applied([dm EXCEPT !.docs = MapPut(dm.docs, new_doc_id, pm.d)],
                    PopDoc(new_doc_id))
      [] pm.k = "PopDoc" ->
            IF contains_key(dm, pm.doc)
            THEN Applied([dm EXCEPT !.docs = MapDel(dm.docs, pm.doc)],
                         CreateDoc(dm.docs[pm.doc]))
            ELSE Failed(dm)
      [] pm.k = "DeleteSel" ->
            IF ~contains_key(dm, pm.doc) THEN Failed(dm)
            ELSE IF pm.sel \notin DOMAIN dm.docs[pm.doc].selections THEN Failed(dm)
            ELSE Applied([dm EXCEPT !.docs = MapPut(dm.docs, pm.doc,
                              [dm.docs[pm.doc] EXCEPT
                                  !.selections = MapDel(dm.docs[pm.doc].selections, pm.sel)])],
                         CreateSel(pm.doc, pm.sel, dm.docs[pm.doc].selections[pm.sel]))
      [] pm.k = "CreateSel" ->
            IF ~contains_key(dm, pm.doc) THEN Failed(dm)
            ELSE Applied(WithSel(dm, pm.doc, pm.sel, pm.ts), DeleteSel(pm.doc, pm.sel))
      [] OTHER -> Failed(dm)

\* PrimitiveMod::apply
ApplyPrim(pm, dm) ==
    IF pm.k \in {"InsText", "DelRange"} THEN ApplyBufMod(pm, dm)
    ELSE IF pm.k \in {"SetHead", "SetTail"} THEN ApplySelMod(pm, dm)
    ELSE ApplyDocMapMod(pm, dm)

-----------------------------------------------------------------------------
(* Transactions: sequences of primitive modifications *)

\* The forward loop of apply_tx: applies primitives until one fails.
\* invs holds the collected inverses in application order.
RECURSIVE ApplyForward(_, _, _)
ApplyForward(mods, dm, invs) ==
    IF mods = <<>> THEN [dm |-> dm, invs |-> invs]
    ELSE LET Pushed(r) ==
                 IF r.ok THEN ApplyForward(Tail(mods), r.dm, Append(invs, r.inv))
                 ELSE [dm |-> r.dm, invs |-> invs]
         IN  Pushed(ApplyPrim(Head(mods), dm))

\* The rollback loop of apply_tx: applies every inverse, ignoring failures.
RECURSIVE ApplyIgnoring(_, _)
ApplyIgnoring(mods, dm) ==
    IF mods = <<>> THEN dm
    ELSE ApplyIgnoring(Tail(mods), ApplyPrim(Head(mods), dm).dm)

TxApplied(dm, inv) == [ok |-> TRUE, dm |-> dm, inv |-> inv]
TxFailed(dm)       == [ok |-> FALSE, dm |-> dm, inv |-> <<>>]

\* Transaction::apply_tx
apply_tx(tx, dm) ==
    LET Reversed(f, inv_primitives) ==
            IF Len(inv_primitives) # Len(tx)
            THEN TxFailed(ApplyIgnoring(inv_primitives, f.dm))
            ELSE TxApplied(f.dm, inv_primitives)
        Collected(f) == Reversed(f, Reverse(f.invs))
    IN  Collected(ApplyForward(tx, dm, <<>>))

\* end_idx - start_idx on usize.  When end_idx < start_idx the subtraction
\* overflows: with overflow checks (debug profile) the thread panics, see
\* map_overflows; without them (release profile) it wraps to a value above
\* every index, for which BigLen stands, so that the saturating subtraction
\* that follows yields 0.
DeletedLen(start_idx, end_idx) ==
    IF end_idx >= start_idx THEN end_idx - start_idx ELSE BigLen

\* map_char_idx that leaves every index where it was
map_char_idx_unmoved(tx, buf_id, old_idx) == old_idx

\* Transaction::map_char_idx; new_idx is folded over the primitives while
\* every comparison reads old_idx.
RECURSIVE MapFold(_, _, _, _)
MapFold(mods, buf_id, old_idx, new_idx) ==
    IF mods = <<>> THEN new_idx
    ELSE LET pm == Head(mods)
             nxt == IF pm.k = "InsText" /\ pm.doc = buf_id /\ old_idx >= pm.a
                        THEN new_idx + CharCount(pm.s)
                    ELSE IF pm.k = "DelRange" /\ pm.doc = buf_id /\ old_idx > pm.b
                        THEN SatSub(new_idx, DeletedLen(pm.a, pm.b))
                    ELSE new_idx
         IN  MapFold(Tail(mods), buf_id, old_idx, nxt)

map_char_idx(tx, buf_id, old_idx) == MapFold(tx, buf_id, old_idx, old_idx)

\* map_char_idx reaches a DelRange arm whose subtraction overflows
map_overflows(tx, buf_id, old_idx) ==
    \E i \in 1..Len(tx) :
        /\ tx[i].k = "DelRange"
        /\ tx[i].doc = buf_id
        /\ old_idx > tx[i].b
        /\ tx[i].b < tx[i].a

-----------------------------------------------------------------------------
(* Grapheme clusters over a buffer *)

LOOKAHEAD_WIDTH == 12

IsExtend(c) == c = "cm"

IsControl(c) == c \in {"nl", "tab"}

\* char::is_whitespace, as str::trim uses it
IsWhitespace(c) == c \in {"sp", "nl", "tab"}

\* Extended grapheme cluster boundary between s[i-1] and s[i] (1-based, i >= 2):
\* no break before an extending character unless a control character precedes.
BreakBefore(s, i) == ~IsExtend(s[i]) \/ IsControl(s[i - 1])

\* Number of characters of s.graphemes(true).next(); 0 when there is none.
FirstGraphemeLen(s) ==
    IF s = <<>> THEN 0
    ELSE SetMin({n \in 1..Len(s) : n = Len(s) \/ BreakBefore(s, n + 1)})

\* Number of characters of s.graphemes(true).rev().next(); 0 when there is none.
LastGraphemeLen(s) ==
    IF s = <<>> THEN 0
    ELSE SetMin({n \in 1..Len(s) : n = Len(s) \/ BreakBefore(s, Len(s) - n + 1)})

\* A grapheme_starting_at that takes the first character for the first grapheme
grapheme_starting_at_one_char(buf, idx) == IF idx >= Len(buf) THEN 0 ELSE 1

\* GraphemeIterable::grapheme_starting_at(idx).map(|g| g.chars().count()).unwrap_or(0)
grapheme_starting_at(buf, idx) ==
    LET hi == Min2(idx + LOOKAHEAD_WIDTH, Len(buf)) IN
    IF ~SliceOk(buf, idx, hi) THEN 0 ELSE FirstGraphemeLen(Slice(buf, idx, hi))

\* A grapheme_ending_at that takes the last character for the last grapheme
grapheme_ending_at_one_char(buf, idx) == IF idx = 0 \/ idx > Len(buf) THEN 0 ELSE 1

\* GraphemeIterable::grapheme_ending_at(idx).map(|g| g.chars().count()).unwrap_or(0)
grapheme_ending_at(buf, idx) ==
    LET lo == SatSub(idx, LOOKAHEAD_WIDTH) IN
    IF ~SliceOk(buf, lo, idx) THEN 0 ELSE LastGraphemeLen(Slice(buf, lo, idx))

\* GraphemeIterator: next_range = (r0, r1), reverse = rev
GIter(r0, r1, rev) == [r0 |-> r0, r1 |-> r1, rev |-> rev]

\* GraphemeIterator::new
graphemes(buf, init_char_idx) ==
    GIter(init_char_idx, init_char_idx + grapheme_starting_at(buf, init_char_idx), FALSE)

curr_idx(it) == it.r0

rev(it) == [it EXCEPT !.rev = ~it.rev]

at_bof(it) == it.r1 = 0

at_eof(it, buf) == it.r0 = Len(buf)

\* The result of one call of next(): the iterator afterwards and the item.
Yield(it, g)  == [it |-> it, some |-> TRUE, g |-> g]
Exhausted(it) == [it |-> it, some |-> FALSE, g |-> <<>>]

\* GraphemeIterator::next_grapheme
next_grapheme(it, buf) ==
    IF at_eof(it, buf) THEN Exhausted(it)
    ELSE IF at_bof(it)
        THEN Yield([it EXCEPT !.r0 = 0, !.r1 = grapheme_starting_at(buf, 0)], <<>>)
    ELSE IF ~SliceOk(buf, it.r0, it.r1) THEN Exhausted(it)
    ELSE Yield([it EXCEPT !.r0 = it.r1, !.r1 = it.r1 + grapheme_starting_at(buf, it.r1)],
               Slice(buf, it.r0, it.r1))

\* GraphemeIterator::prev_grapheme
prev_grapheme(it, buf) ==
    IF at_bof(it) THEN Exhausted(it)
    ELSE IF at_eof(it, buf)
        THEN Yield([it EXCEPT !.r0 = SatSub(Len(buf), grapheme_ending_at(buf, Len(buf))),
                              !.r1 = Len(buf)], <<>>)
    ELSE IF ~SliceOk(buf, it.r0, it.r1) THEN Exhausted(it)
    ELSE Yield([it EXCEPT !.r0 = SatSub(it.r0, grapheme_ending_at(buf, it.r0)),
                          !.r1 = it.r0],
               Slice(buf, it.r0, it.r1))

\* Iterator::next for GraphemeIterator
iter_next(it, buf) == IF it.rev THEN prev_grapheme(it, buf) ELSE next_grapheme(it, buf)

\* Iterator::nth(1): the second item, None when either call yields None
iter_nth1(it, buf) ==
    LET Second(a) == IF ~a.some THEN a ELSE iter_next(a.it, buf)
    IN  Second(iter_next(it, buf))

\* The predicates the movements pass to stop_at / stop_before.
EndsWith(target)  == [kind |-> "ends_with", target |-> target]
HasBlankEdge      == [kind |-> "trim_differs", target |-> ""]
HasNonBlank       == [kind |-> "trim_non_empty", target |-> ""]

Holds(pred, str) ==
    CASE pred.kind = "ends_with"      -> str # <<>> /\ str[Len(str)] = pred.target
      [] pred.kind = "trim_differs"   -> str # <<>> /\ (IsWhitespace(str[1]) \/ IsWhitespace(str[Len(str)]))
      [] pred.kind = "trim_non_empty" -> \E i \in 1..Len(str) : ~IsWhitespace(str[i])

\* The loop of stop_at: [it, hit] where hit tells the predicate ended it.
RECURSIVE StopLoop(_, _, _, _)
StopLoop(it, buf, pred, collected) ==
    LET Collect(r) ==
            IF ~r.some THEN [it |-> r.it, hit |-> FALSE]
            ELSE IF Holds(pred, collected \o r.g) THEN [it |-> r.it, hit |-> TRUE]
            ELSE StopLoop(r.it, buf, pred, collected \o r.g)
    IN  Collect(iter_next(it, buf))

\* self.rev(); self.next(); self.rev()
StepBack(it, buf) == rev(iter_next(rev(it), buf).it)

\* A stop_at that leaves the iterator after the terminating grapheme
stop_at_past_hit(it, buf, pred) == StopLoop(it, buf, pred, <<>>).it

\* GraphemeIterator::stop_at
stop_at(it, buf, pred) ==
    LET Stopped(l) == IF l.hit THEN StepBack(l.it, buf) ELSE l.it
    IN  Stopped(StopLoop(it, buf, pred, <<>>))

\* GraphemeIterator::stop_before
stop_before(it, buf, pred) == StepBack(stop_at(it, buf, pred), buf)

-----------------------------------------------------------------------------
(* Lines of a buffer (ropey) *)

\* Number of line breaks in buf[0..i)
RECURSIVE NumBreaks(_, _)
NumBreaks(buf, i) ==
    IF i = 0 THEN 0
    ELSE NumBreaks(buf, i - 1) + (IF buf[i] = "nl" THEN 1 ELSE 0)

len_lines(buf) == NumBreaks(buf, Len(buf)) + 1

\* Rope::try_char_to_line(char_idx).ok()
try_char_to_line(buf, char_idx) ==
    IF char_idx > Len(buf) THEN None ELSE NumBreaks(buf, char_idx)

\* Rope::try_line_to_char(line_idx).ok()
try_line_to_char(buf, line_idx) ==
    IF line_idx > len_lines(buf) THEN None
    ELSE IF line_idx = len_lines(buf) THEN Len(buf)
    ELSE SetMin({i \in 0..Len(buf) : NumBreaks(buf, i) = line_idx})

\* Rope::get_line(line_idx).is_some()
HasLine(buf, line_idx) == line_idx < len_lines(buf)

\* Rope::get_line(line_idx), for a line that exists
get_line(buf, line_idx) ==
    Slice(buf, try_line_to_char(buf, line_idx), try_line_to_char(buf, line_idx + 1))

-----------------------------------------------------------------------------
(* Cursor movements: (char_idx, buf) -> Option<char_idx> *)

TabWidth == 4

\* UnicodeWidthStr::width of one character outside tab and newline
CharWidth(c) == IF c = "cm" THEN 0 ELSE 1

\* The width of buf[a..b) after replace('\t', "    ").replace('\n', " ")
RECURSIVE ReplacedWidth(_)
ReplacedWidth(str) ==
    IF str = <<>> THEN 0
    ELSE (IF Head(str) = "tab" THEN TabWidth
          ELSE IF Head(str) = "nl" THEN 1
          ELSE CharWidth(Head(str))) + ReplacedWidth(Tail(str))

RECURSIVE StrWidth(_)
StrWidth(str) == IF str = <<>> THEN 0 ELSE CharWidth(Head(str)) + StrWidth(Tail(str))

\* The width the loop of jump_to_line adds for the grapheme g
GraphemeWidth(g) ==
    IF g = <<"tab">> THEN TabWidth ELSE IF g = <<"nl">> THEN 1 ELSE StrWidth(g)

\* The loop of jump_to_line over target_line.graphemes(true): the character
\* offset reached when the next grapheme would exceed target_width.
RECURSIVE WalkLine(_, _, _, _)
WalkLine(line, target_width, curr_width, offset) ==
    IF line = <<>> THEN offset
    ELSE LET n == FirstGraphemeLen(line)
             next_width == curr_width + GraphemeWidth(SubSeq(line, 1, n))
         IN  IF next_width > target_width THEN offset
             ELSE WalkLine(SubSeq(line, n + 1, Len(line)), target_width, next_width, offset + n)

Clamp(x, lo, hi) == IF x < lo THEN lo ELSE IF x > hi THEN hi ELSE x

jump_to_line(curr_char_idx, curr_line_idx, target_line_idx, buf) ==
    LET curr_line_start == try_line_to_char(buf, curr_line_idx)
        target_line_start == try_line_to_char(buf, target_line_idx)
    IN  IF curr_line_start = None \/ target_line_start = None THEN None
        ELSE IF ~HasLine(buf, target_line_idx) THEN None
        ELSE IF ~SliceOk(buf, curr_line_start, curr_char_idx) THEN None
        ELSE
        LET is_last == target_line_idx = SatSub(len_lines(buf), 1)
            line == get_line(buf, target_line_idx)
            target_line_end == SatSub(target_line_start + Len(line), 1)
                                   + (IF is_last THEN 1 ELSE 0)
            target_width == ReplacedWidth(Slice(buf, curr_line_start, curr_char_idx))
            target_line == IF is_last THEN Append(line, "sp") ELSE line
            target_line_char_offset == WalkLine(target_line, target_width, 0, 0)
        IN  Clamp(target_line_start + target_line_char_offset,
                  target_line_start, target_line_end)

right_grapheme(char_idx, buf) ==
    LET r == iter_next(graphemes(buf, char_idx), buf) IN
    IF r.some THEN curr_idx(r.it) ELSE None

left_grapheme(char_idx, buf) ==
    IF char_idx = Len(buf) THEN SatSub(char_idx, 1)
    ELSE LET r == iter_next(rev(graphemes(buf, char_idx)), buf) IN
         IF r.some THEN curr_idx(r.it) ELSE None

upper_grapheme_or_start(char_idx, buf) ==
    LET curr_line_idx == try_char_to_line(buf, char_idx) IN
    IF curr_line_idx = None THEN None
    ELSE IF curr_line_idx = 0 THEN 0
    ELSE jump_to_line(char_idx, curr_line_idx, curr_line_idx - 1, buf)

lower_grapheme_or_end(char_idx, buf) ==
    LET curr_line_idx == try_char_to_line(buf, char_idx) IN
    IF curr_line_idx = None THEN None
    ELSE IF curr_line_idx = SatSub(len_lines(buf), 1) THEN Len(buf)
    ELSE jump_to_line(char_idx, curr_line_idx, curr_line_idx + 1, buf)

file_start(char_idx, buf) == 0

file_end(char_idx, buf) == Len(buf)

line_start(char_idx, buf) ==
    LET line_idx == try_char_to_line(buf, char_idx) IN
    IF line_idx = None THEN None ELSE try_line_to_char(buf, line_idx)

line_end(char_idx, buf) ==
    LET line_idx == try_char_to_line(buf, char_idx) IN
    IF line_idx = None THEN None
    ELSE IF line_start(char_idx, buf) = None \/ ~HasLine(buf, line_idx) THEN None
    ELSE line_start(char_idx, buf) + SatSub(Len(get_line(buf, line_idx)), 1)

next_line_start(char_idx, buf) ==
    LET line_idx == try_char_to_line(buf, char_idx) IN
    IF line_idx = None THEN None
    ELSE IF line_idx = SatSub(len_lines(buf), 1) THEN None
    ELSE try_line_to_char(buf, line_idx + 1)

right_occurrence(char_idx, target, buf) ==
    IF char_idx >= SatSub(Len(buf), 1) THEN None
    ELSE curr_idx(stop_at(graphemes(buf, char_idx), buf, EndsWith(target)))

left_occurrence(char_idx, target, buf) ==
    IF char_idx = 0 THEN None
    ELSE curr_idx(stop_at(rev(graphemes(buf, char_idx)), buf, EndsWith(target)))

\* g.trim().is_empty()
IsBlank(g) == \A i \in 1..Len(g) : IsWhitespace(g[i])

right_word_start(char_idx, buf) ==
    IF char_idx = Len(buf) THEN None
    ELSE LET it == graphemes(buf, char_idx)
             Skipped(second) ==
                 IF ~second.some THEN None
                 ELSE LET it1 == IF IsBlank(second.g) THEN stop_at(it, buf, HasBlankEdge) ELSE it
                      IN  curr_idx(stop_at(it1, buf, HasNonBlank))
         IN  Skipped(iter_nth1(it, buf))

right_word_end(char_idx, buf) ==
    IF char_idx = Len(buf) THEN None
    ELSE curr_idx(stop_before(graphemes(buf, char_idx), buf, HasBlankEdge))

left_word_start(char_idx, buf) ==
    IF char_idx = 0 THEN None
    ELSE LET it == rev(graphemes(buf, char_idx))
             Skipped(second) ==
                 IF ~second.some THEN None
                 ELSE LET it1 == IF IsBlank(second.g) THEN stop_at(it, buf, HasBlankEdge) ELSE it
                      IN  curr_idx(stop_at(it1, buf, HasNonBlank))
         IN  Skipped(iter_nth1(it, buf))

left_word_end(char_idx, buf) ==
    IF char_idx = 0 THEN None
    ELSE curr_idx(stop_before(rev(graphemes(buf, char_idx)), buf, HasBlankEdge))

-----------------------------------------------------------------------------
(* Selections: iteration order and merging *)

\* All orders in which a HashMap with the key set S may be iterated.
RECURSIVE Orders(_)
Orders(S) ==
    IF S = {} THEN {<<>>}
    ELSE UNION {{<<x>> \o o : o \in Orders(S \ {x})} : x \in S}

\* The orders in which the selections of the current document may be iterated
IterOrders(dm) == IF HasCurrDoc(dm) THEN Orders(DOMAIN CurrDoc(dm).selections) ELSE {<<>>}

SelMin(sel) == Min2(sel.head, IF sel.tail = None THEN sel.head ELSE sel.tail)
SelMax(sel) == Max2(sel.head, IF sel.tail = None THEN sel.head ELSE sel.tail)

\* Stable insertion of the pair x = <<key, item>> into the sorted sequence srt
RECURSIVE InsertSorted(_, _)
InsertSorted(srt, x) ==
    IF srt = <<>> THEN <<x>>
    ELSE IF x[1] < Head(srt)[1] THEN <<x>> \o srt
    ELSE <<Head(srt)>> \o InsertSorted(Tail(srt), x)

\* Itertools::sorted_by_key (a stable sort) over <<key, item>> pairs
RECURSIVE SortedByKey(_)
SortedByKey(seq) ==
    IF seq = <<>> THEN <<>>
    ELSE InsertSorted(SortedByKey(SubSeq(seq, 1, Len(seq) - 1)), seq[Len(seq)])

\* The fold of collect_merged over the sorted (start, end) pairs
RECURSIVE MergeFold(_, _)
MergeFold(pairs, merged) ==
    IF pairs = <<>> THEN merged
    ELSE LET start == Head(pairs)[1]
             end == Head(pairs)[2]
         IN
         IF merged = <<>> THEN MergeFold(Tail(pairs), <<Head(pairs)>>)
         ELSE
         LET last_added == merged[Len(merged)]
             init == SubSeq(merged, 1, Len(merged) - 1)
         IN
         IF start >= last_added[1] /\ end <= last_added[2]
             THEN MergeFold(Tail(pairs), merged)
         ELSE IF start < last_added[1] /\ end >= last_added[1] /\ end <= last_added[2]
             THEN MergeFold(Tail(pairs), Append(init, <<start, last_added[2]>>))
         ELSE IF start >= last_added[1] /\ start <= last_added[2] /\ end > last_added[2]
             THEN MergeFold(Tail(pairs), Append(init, <<last_added[1], end>>))
         ELSE IF start < last_added[1] /\ end >= last_added[2]
             THEN MergeFold(Tail(pairs), Append(init, <<start, end>>))
         ELSE MergeFold(Tail(pairs), Append(merged, <<start, end>>))

\* collect_merged without the sorted_by_key
collect_merged_unsorted(sel_seq, buf) ==
    LET pairs == [i \in 1..Len(sel_seq) |->
                    LET mx == SelMax(sel_seq[i])
                        rg == right_grapheme(mx, buf)
                    IN  <<SelMin(sel_seq[i]), IF rg = None THEN mx ELSE rg>>]
    IN  MergeFold(pairs, <<>>)

\* SelectionIterator::collect_merged over the selections in iteration order
collect_merged(sel_seq, buf) ==
    LET sorted == SortedByKey([i \in 1..Len(sel_seq) |-> <<SelMin(sel_seq[i]), sel_seq[i]>>])
        pairs == [i \in 1..Len(sorted) |->
                    LET mx == SelMax(sorted[i][2])
                        rg == right_grapheme(mx, buf)
                    IN  <<sorted[i][1], IF rg = None THEN mx ELSE rg>>]
    IN  MergeFold(pairs, <<>>)

-----------------------------------------------------------------------------
(* Key events *)

NONE == 0
CTRL == 1

Char(c, mods) == [t |-> "Char", c |-> c, mods |-> mods]
Key(k, mods)  == [t |-> "Key", c |-> k, mods |-> mods]

\* KeyCombo::extract_text
RECURSIVE extract_text(_)
extract_text(kc) ==
    IF kc = <<>> THEN <<>>
    ELSE (IF Head(kc).t = "Char" THEN <<Head(kc).c>>
          ELSE IF Head(kc).c = "Enter" THEN <<"nl">>
          ELSE IF Head(kc).c = "Tab" THEN <<"tab">>
          ELSE <<>>) \o extract_text(Tail(kc))

-----------------------------------------------------------------------------
(* Transaction generators: (KeyCombo, DocumentMap) -> Option<Transaction>.  *)
(* ord is the order in which the selection map of the current document is  *)
(* iterated.                                                               *)

\* overflow tells that building the transaction ran into an arithmetic
\* overflow, which panics when the build checks for it.
Generated(tx, overflow) == [some |-> TRUE, tx |-> tx, overflow |-> overflow]
GenSome(tx) == Generated(tx, FALSE)
GenNone     == [some |-> FALSE, tx |-> <<>>, overflow |-> FALSE]

\* selections.iter() of the current document, as a sequence of ids
SelIds(dm, ord) == SelectSeq(ord, LAMBDA id : id \in DOMAIN CurrDoc(dm).selections)

\* A movement by name
Movement(name, char_idx, buf, target) ==
    CASE name = "left_grapheme"           -> left_grapheme(char_idx, buf)
      [] name = "right_grapheme"          -> right_grapheme(char_idx, buf)
      [] name = "upper_grapheme_or_start" -> upper_grapheme_or_start(char_idx, buf)
      [] name = "lower_grapheme_or_end"   -> lower_grapheme_or_end(char_idx, buf)
      [] name = "line_start"              -> line_start(char_idx, buf)
      [] name = "line_end"                -> line_end(char_idx, buf)
      [] name = "file_start"              -> file_start(char_idx, buf)
      [] name = "file_end"                -> file_end(char_idx, buf)
      [] name = "right_word_start"        -> right_word_start(char_idx, buf)
      [] name = "right_word_end"          -> right_word_end(char_idx, buf)
      [] name = "left_word_start"         -> left_word_start(char_idx, buf)
      [] name = "left_word_end"           -> left_word_end(char_idx, buf)
      [] name = "right_occurrence"        -> right_occurrence(char_idx, target, buf)
      [] name = "left_occurrence"         -> left_occurrence(char_idx, target, buf)

move_all_heads(movement_fn, target, dm, ord) ==
    IF ~HasCurrDoc(dm) THEN GenNone
    ELSE LET doc == CurrDoc(dm)
             ids == SelIds(dm, ord)
             Moved(sel_id, head, m) == SetHead(dm.cur, sel_id, IF m = None THEN head ELSE m)
         IN  GenSome([i \in 1..Len(ids) |->
                 Moved(ids[i], doc.selections[ids[i]].head,
                       Movement(movement_fn, doc.selections[ids[i]].head, doc.buf, target))])

\* move_head_right_occurrence / move_head_left_occurrence
move_head_occurrence(movement_fn, tr, dm, ord) ==
    IF Len(tr) < 2 THEN GenNone
    ELSE IF tr[2].t # "Char" THEN GenNone
    ELSE move_all_heads(movement_fn, tr[2].c, dm, ord)

\* Concatenation of a sequence of sequences (Iterator::flatten)
RECURSIVE Flatten(_)
Flatten(ss) == IF ss = <<>> THEN <<>> ELSE Head(ss) \o Flatten(Tail(ss))

select_this_or_next_line(dm, ord) ==
    IF ~HasCurrDoc(dm) THEN GenNone
    ELSE
    LET doc == CurrDoc(dm)
        buf == doc.buf
        ids == SelIds(dm, ord)
        ForSel(sel_id) ==
            LET sel == doc.selections[sel_id]
                min == SelMin(sel)
                max == SelMax(sel)
                curr_line_start == line_start(sel.head, buf)
                curr_line_end == line_end(sel.head, buf)
            IN  IF curr_line_start = None \/ curr_line_end = None THEN <<>>
                ELSE IF curr_line_start = min /\ curr_line_end = max THEN
                    LET next_line_start_idx == next_line_start(max, buf) IN
                    IF next_line_start_idx = None THEN <<>>
                    ELSE LET next_line_end_idx == line_end(next_line_start_idx, buf) IN
                         IF next_line_end_idx = None THEN <<>>
                         ELSE <<SetHead(dm.cur, sel_id, next_line_end_idx),
                                SetTail(dm.cur, sel_id, next_line_start_idx)>>
                ELSE <<SetHead(dm.cur, sel_id, curr_line_end),
                       SetTail(dm.cur, sel_id, curr_line_start)>>
    IN  GenSome(Flatten([i \in 1..Len(ids) |-> ForSel(ids[i])]))

\* The first loop of delete_sels: one DelRange per merged interval, each
\* bound mapped through the deletions queued before it.
RECURSIVE DeleteMerged(_, _, _, _)
DeleteMerged(merged, cur, modification, overflow) ==
    IF merged = <<>> THEN Generated(modification, overflow)
    ELSE LET start == map_char_idx(modification, cur, Head(merged)[1])
             end == map_char_idx(modification, cur, Head(merged)[2])
         IN  DeleteMerged(Tail(merged), cur, Append(modification, DelRange(cur, start, end)),
                          \/ overflow
                          \/ map_overflows(modification, cur, Head(merged)[1])
                          \/ map_overflows(modification, cur, Head(merged)[2]))

delete_sels(dm, ord) ==
    IF ~HasCurrDoc(dm) THEN GenNone
    ELSE
    LET doc == CurrDoc(dm)
        ids == SelIds(dm, ord)
        merged_sels == collect_merged([i \in 1..Len(ids) |-> doc.selections[ids[i]]], doc.buf)
        Collapse(sel_id, deletions) ==
            LET new_head_idx == map_char_idx(deletions.tx, dm.cur, SelMin(doc.selections[sel_id]))
            IN  <<SetHead(dm.cur, sel_id, new_head_idx), SetTail(dm.cur, sel_id, new_head_idx)>>
        Collapsed(deletions) ==
            Generated(deletions.tx \o Flatten([i \in 1..Len(ids) |-> Collapse(ids[i], deletions)]),
                      \/ deletions.overflow
                      \/ \E i \in 1..Len(ids) :
                            map_overflows(deletions.tx, dm.cur, SelMin(doc.selections[ids[i]])))
    IN  Collapsed(DeleteMerged(merged_sels, dm.cur, <<>>, FALSE))

insert_newline(dm, ord) ==
    IF ~HasCurrDoc(dm) THEN GenNone
    ELSE LET doc == CurrDoc(dm)
             ids == SelIds(dm, ord)
             mods == [i \in 1..Len(ids) |-> InsText(dm.cur, doc.selections[ids[i]].head, <<"nl">>)]
         IN  IF mods = <<>> THEN GenNone ELSE GenSome(mods)

add_sel_down(dm) ==
    IF ~HasCurrDoc(dm) THEN GenNone
    ELSE LET doc == CurrDoc(dm)
             keys == DOMAIN doc.selections
             max_sel_head == IF keys = {} THEN 0 ELSE doc.selections[SetMax(keys)].head
             new_sel_head == lower_grapheme_or_end(max_sel_head, doc.buf)
             new_sel_id == IF keys = {} THEN 0 ELSE SetMax(keys) + 1
         IN  IF new_sel_head = None THEN GenNone
             ELSE GenSome(<<CreateSel(dm.cur, new_sel_id, TextSelection(new_sel_head, None))>>)

collapse_sels(dm, ord) ==
    IF ~HasCurrDoc(dm) THEN GenNone
    ELSE LET ids == SelIds(dm, ord) IN
         GenSome([i \in 1..Len(ids) |-> SetTail(dm.cur, ids[i], None)])

\* reset_sels without the filter that spares the selection of least id
reset_sels_sparing_none(dm, ord) ==
    IF ~HasCurrDoc(dm) THEN GenNone
    ELSE IF DOMAIN CurrDoc(dm).selections = {} THEN GenNone
    ELSE LET ids == SelIds(dm, ord)
         IN  GenSome([i \in 1..Len(ids) |-> DeleteSel(dm.cur, ids[i])])

reset_sels(dm, ord) ==
    IF ~HasCurrDoc(dm) THEN GenNone
    ELSE IF DOMAIN CurrDoc(dm).selections = {} THEN GenNone
    ELSE LET min_sel_id == SetMin(DOMAIN CurrDoc(dm).selections)
             ids == SelectSeq(SelIds(dm, ord), LAMBDA id : id # min_sel_id)
         IN  GenSome([i \in 1..Len(ids) |-> DeleteSel(dm.cur, ids[i])])

drop_tail(dm, ord) ==
    IF ~HasCurrDoc(dm) THEN GenNone
    ELSE LET doc == CurrDoc(dm)
             ids == SelectSeq(SelIds(dm, ord), LAMBDA id : doc.selections[id].tail = None)
         IN  GenSome([i \in 1..Len(ids) |-> SetTail(dm.cur, ids[i], doc.selections[ids[i]].head)])

collapse_or_reset_sels(dm, ord) ==
    IF ~HasCurrDoc(dm) THEN GenNone
    ELSE LET tails_exist == \E id \in DOMAIN CurrDoc(dm).selections :
                                CurrDoc(dm).selections[id].tail # None
         IN  IF tails_exist THEN collapse_sels(dm, ord) ELSE reset_sels(dm, ord)

swap_head_tail(dm, ord) ==
    IF ~HasCurrDoc(dm) THEN GenNone
    ELSE LET doc == CurrDoc(dm)
             ids == SelectSeq(SelIds(dm, ord), LAMBDA id : doc.selections[id].tail # None)
         IN  GenSome(Flatten([i \in 1..Len(ids) |->
                 <<SetTail(dm.cur, ids[i], doc.selections[ids[i]].head),
                   SetHead(dm.cur, ids[i], doc.selections[ids[i]].tail)>>]))

\* The selection ids of the current document sorted by head
SortedByHead(dm, ord) ==
    LET ids == SelIds(dm, ord)
        sorted == SortedByKey([i \in 1..Len(ids) |-> <<CurrDoc(dm).selections[ids[i]].head, ids[i]>>])
    IN  [i \in 1..Len(sorted) |-> sorted[i][2]]

\* The loop of insert_key over the selections sorted by head
RECURSIVE InsertAtHeads(_, _, _, _)
InsertAtHeads(ids, dm, text_to_insert, modification) ==
    IF ids = <<>> THEN modification
    ELSE LET sel == CurrDoc(dm).selections[Head(ids)]
             insert_index == map_char_idx(modification, dm.cur, sel.head)
             new_head == insert_index + CharCount(text_to_insert)
         IN  InsertAtHeads(Tail(ids), dm, text_to_insert,
                 modification \o <<InsText(dm.cur, insert_index, text_to_insert),
                                   SetHead(dm.cur, Head(ids), new_head)>>)

insert_key(trigger, dm, ord) ==
    LET text_to_insert == extract_text(trigger) IN
    IF text_to_insert = <<>> THEN GenNone
    ELSE IF ~HasCurrDoc(dm) THEN GenNone
    ELSE GenSome(InsertAtHeads(SortedByHead(dm, ord), dm, text_to_insert, <<>>))

\* The loop of delete_at_side over the selections sorted by head
RECURSIVE DeleteAtHeads(_, _, _, _, _)
DeleteAtHeads(ids, dm, side_fn, modification, overflow) ==
    IF ids = <<>> THEN Generated(modification, overflow)
    ELSE LET sel == CurrDoc(dm).selections[Head(ids)]
             Queued(side_g_idx) ==
                 LET lo == Min2(side_g_idx, sel.head)
                     hi == Max2(side_g_idx, sel.head)
                     start == map_char_idx(modification, dm.cur, lo)
                     end == map_char_idx(modification, dm.cur, hi)
                 IN  IF side_g_idx = None
                         THEN DeleteAtHeads(Tail(ids), dm, side_fn, modification, overflow)
                     ELSE DeleteAtHeads(Tail(ids), dm, side_fn,
                              modification \o <<DelRange(dm.cur, start, end),
                                                SetHead(dm.cur, Head(ids), start)>>,
                              \/ overflow
                              \/ map_overflows(modification, dm.cur, lo)
                              \/ map_overflows(modification, dm.cur, hi))
         IN  Queued(IF side_fn = "left_grapheme"
                        THEN left_grapheme(sel.head, CurrDoc(dm).buf)
                        ELSE right_grapheme(sel.head, CurrDoc(dm).buf))

delete_at_side(dm, side_fn, ord) ==
    IF ~HasCurrDoc(dm) THEN GenNone
    ELSE DeleteAtHeads(SortedByHead(dm, ord), dm, side_fn, <<>>, FALSE)

delete_left(dm, ord) == delete_at_side(dm, "left_grapheme", ord)

delete_right(dm, ord) == delete_at_side(dm, "right_grapheme", ord)

\* move_head_left .. move_head_left_word_end: the movement each one passes
\* to move_all_heads
move_head_fns ==
    [move_head_left             |-> "left_grapheme",
     move_head_right            |-> "right_grapheme",
     move_head_up               |-> "upper_grapheme_or_start",
     move_head_down             |-> "lower_grapheme_or_end",
     move_head_line_start       |-> "line_start",
     move_head_line_end         |-> "line_end",
     move_head_file_start       |-> "file_start",
     move_head_file_end         |-> "file_end",
     move_head_right_word_start |-> "right_word_start",
     move_head_right_word_end   |-> "right_word_end",
     move_head_left_word_start  |-> "left_word_start",
     move_head_left_word_end    |-> "left_word_end"]

\* move_head_right_occurrence / move_head_left_occurrence: likewise
move_head_occurrence_fns ==
    [move_head_right_occurrence |-> "right_occurrence",
     move_head_left_occurrence  |-> "left_occurrence"]

\* A TransactionGenerator by its name (TransactionGenerator.0)
Generate(gen, trigger, dm, ord) ==
    CASE gen \in DOMAIN move_head_fns      -> move_all_heads(move_head_fns[gen], "", dm, ord)
      [] gen \in DOMAIN move_head_occurrence_fns
                                            -> move_head_occurrence(move_head_occurrence_fns[gen], trigger, dm, ord)
      [] gen = "select_this_or_next_line"   -> select_this_or_next_line(dm, ord)
      [] gen = "delete_sels"                -> delete_sels(dm, ord)
      [] gen = "insert_newline"             -> insert_newline(dm, ord)
      [] gen = "add_sel_down"               -> add_sel_down(dm)
      [] gen = "collapse_sels"              -> collapse_sels(dm, ord)
      [] gen = "collapse_sels_force"        -> collapse_sels(dm, ord)
      [] gen = "reset_sels"                 -> reset_sels(dm, ord)
      [] gen = "drop_tail"                  -> drop_tail(dm, ord)
      [] gen = "collapse_or_reset_sels"     -> collapse_or_reset_sels(dm, ord)
      [] gen = "swap_head_tail"             -> swap_head_tail(dm, ord)
      [] gen = "insert_key"                 -> insert_key(trigger, dm, ord)
      [] gen = "delete_left"                -> delete_left(dm, ord)
      [] gen = "delete_right"               -> delete_right(dm, ord)

-----------------------------------------------------------------------------
(* HistoricalEditorState: the document map with its undo and redo stacks.  *)
(* The operators below act on a record st of the editor's fields.          *)

EditorState(dm, p, n, modes, combo, cmd) ==
    [doc_map |-> dm, prev |-> p, next |-> n,
     active_modes |-> modes, curr_combo |-> combo, curr_cmd |-> cmd]

TxSome(st, tx) == [st |-> st, some |-> TRUE, tx |-> tx, panicked |-> FALSE]
TxNone(st)     == [st |-> st, some |-> FALSE, tx |-> <<>>, panicked |-> FALSE]
TxPanic(st)    == [st |-> st, some |-> FALSE, tx |-> <<>>, panicked |-> TRUE]

\* EditorHistory::undo answering an empty prev stack with an empty
\* transaction
undo_or_default(st) ==
    IF st.prev = <<>> THEN TxSome(st, <<>>)
    ELSE LET prev_tx == Head(st.prev)
             Popped(r) ==
                 TxSome([st EXCEPT !.prev = Tail(st.prev),
                                   !.doc_map = r.dm,
                                   !.next = IF r.ok THEN <<r.inv>> \o st.next ELSE st.next],
                        prev_tx)
         IN  Popped(apply_tx(prev_tx, st.doc_map))

\* EditorHistory::undo
undo(st) ==
    IF st.prev = <<>> THEN TxNone(st)
    ELSE LET prev_tx == Head(st.prev)
             Popped(r) ==
                 TxSome([st EXCEPT !.prev = Tail(st.prev),
                                   !.doc_map = r.dm,
                                   !.next = IF r.ok THEN <<r.inv>> \o st.next ELSE st.next],
                        prev_tx)
         IN  Popped(apply_tx(prev_tx, st.doc_map))

\* EditorHistory::redo
redo(st) ==
    IF st.next = <<>> THEN TxNone(st)
    ELSE LET next_tx == Head(st.next)
             Popped(r) ==
                 TxSome([st EXCEPT !.next = Tail(st.next),
                                   !.doc_map = r.dm,
                                   !.prev = IF r.ok THEN <<r.inv>> \o st.prev ELSE st.prev],
                        next_tx)
         IN  Popped(apply_tx(next_tx, st.doc_map))

\* EditorHistory::next without the clearing of the redo stack
history_next_keeping_redo(m, st) ==
    LET Pushed(r) ==
            [st |-> [st EXCEPT !.doc_map = r.dm,
                               !.prev = IF r.ok THEN <<r.inv>> \o st.prev ELSE st.prev],
             ok |-> r.ok]
    IN  Pushed(apply_tx(m, st.doc_map))

\* EditorHistory::next
history_next(m, st) ==
    LET Pushed(r) ==
            [st |-> [st EXCEPT !.next = <<>>,
                               !.doc_map = r.dm,
                               !.prev = IF r.ok THEN <<r.inv>> \o st.prev ELSE st.prev],
             ok |-> r.ok]
    IN  Pushed(apply_tx(m, st.doc_map))

\* modify_with_tx without the early return on an empty transaction
modify_with_tx_unchecked(tx, st) == history_next(tx, st)

\* HistoricalEditorState::modify_with_tx
modify_with_tx(tx, st) ==
    IF tx = <<>> THEN [st |-> st, ok |-> TRUE]
    ELSE history_next(tx, st)

\* HistoricalEditorState::modify_with_tx_gen; env.ord is the iteration order
\* of the selections, env.checks whether the build checks for overflow
modify_with_tx_gen(trigger, tx_gen, st, env) ==
    LET Filtered(g, r) == IF r.ok THEN TxSome(r.st, g.tx) ELSE TxNone(r.st)
        Modified(g) ==
            IF g.overflow /\ env.checks THEN TxPanic(st)
            ELSE IF ~g.some THEN TxNone(st)
            ELSE Filtered(g, modify_with_tx(g.tx, st))
    IN  Modified(Generate(tx_gen, trigger, st.doc_map, env.ord))

-----------------------------------------------------------------------------
(* Editor commands and ModalEditor::update_with_action *)

EditorCmd(c, arg) == [c |-> c, arg |-> arg]

UndoCurrDocument         == EditorCmd("UndoCurrDocument", "")
RedoCurrDocument         == EditorCmd("RedoCurrDocument", "")
SaveCurrDocument(path)   == EditorCmd("SaveCurrDocument", path)
Transaction(tx_gen)      == EditorCmd("Transaction", tx_gen)
PushMode(mode)           == EditorCmd("PushMode", mode)
PopMode                  == EditorCmd("PopMode", "")
ResetCombo               == EditorCmd("ResetCombo", "")
Quit                     == EditorCmd("Quit", "")
ThrowErr(msg)            == EditorCmd("ThrowErr", msg)

\* The argument of SaveCurrDocument(None); a Some(path) is a non-empty
\* sequence of characters.
NoPath == <<>>

\* The modes registered by main
registered_modes == {"insert", "normal", "goto", "command", "selection"}

CmdOk(st, kind, tx) == [st |-> st, err |-> "none", kind |-> kind, tx |-> tx]
CmdErr(st, err)     == [st |-> st, err |-> err, kind |-> "none", tx |-> <<>>]

\* Document::save and Document::save_as; fs_ok tells whether std::fs::write
\* succeeds.
SaveDoc(st, file_path, fs_ok) ==
    LET dm == st.doc_map IN
    IF ~HasCurrDoc(dm) THEN CmdErr(st, "SaveError")
    ELSE LET doc == CurrDoc(dm)
             target == IF file_path # NoPath THEN file_path ELSE doc.source
         IN  IF target = NoSource \/ ~fs_ok THEN CmdErr(st, "SaveError")
             ELSE CmdOk([st EXCEPT !.doc_map.docs[dm.cur] =
                             [doc EXCEPT !.source = target, !.dirty = FALSE]],
                        "DocumentSaved", <<>>)

\* The PushMode arm with push_back in the place of push_front
PushModeArmAtBack(new_mode, st) ==
    IF new_mode \in registered_modes
    THEN CmdOk([st EXCEPT !.active_modes = Append(st.active_modes, new_mode)],
               "ModeUpdated", <<>>)
    ELSE CmdErr(st, "InvalidMode")

\* The PushMode arm of update_with_action
PushModeArm(new_mode, st) ==
    IF new_mode \in registered_modes
    THEN CmdOk([st EXCEPT !.active_modes = <<new_mode>> \o st.active_modes],
               "ModeUpdated", <<>>)
    ELSE CmdErr(st, "InvalidMode")

\* The PopMode arm without the test on the length of the stack
PopModeArmUnguarded(st) ==
    IF Len(st.active_modes) > 0
    THEN CmdOk([st EXCEPT !.active_modes = Tail(st.active_modes)], "ModeUpdated", <<>>)
    ELSE CmdErr(st, "CannotPopMode")

\* The PopMode arm of update_with_action
PopModeArm(st) ==
    IF Len(st.active_modes) > 1
    THEN CmdOk([st EXCEPT !.active_modes = Tail(st.active_modes)], "ModeUpdated", <<>>)
    ELSE CmdErr(st, "CannotPopMode")

\* One iteration of the loop of update_with_action: the match on cmd.
\* The err "panic" is no ModalEditorError: it stands for the thread
\* unwinding out of update.
RunCmd(cmd, st, env) ==
    LET TxResult(r, err) ==
            IF r.panicked THEN CmdErr(r.st, "panic")
            ELSE IF r.some THEN CmdOk(r.st, "TxApplied", r.tx) ELSE CmdErr(r.st, err)
    IN
    CASE cmd.c = "UndoCurrDocument" -> TxResult(undo(st), "UndoError")
      [] cmd.c = "RedoCurrDocument" -> TxResult(redo(st), "RedoError")
      [] cmd.c = "Transaction" ->
            TxResult(modify_with_tx_gen(st.curr_combo, cmd.arg, st, env), "TxError")
      [] cmd.c = "PushMode" -> PushModeArm(cmd.arg, st)
      [] cmd.c = "PopMode" -> PopModeArm(st)
      [] cmd.c = "ResetCombo" ->
            CmdOk([st EXCEPT !.curr_combo = <<>>], "ComboResetted", <<>>)
      [] cmd.c = "SaveCurrDocument" -> SaveDoc(st, cmd.arg, env.fs_ok)
      [] cmd.c = "Quit" -> CmdOk(st, "QuitRequested", <<>>)
      [] cmd.c = "ThrowErr" -> CmdErr(st, "ModeError")

Updated(st, err, results) == [st |-> st, err |-> err, results |-> results]

\* The loop of update_with_action over the commands not yet executed
RECURSIVE RunAction(_, _, _, _)
RunAction(cmds, st, env, results) ==
    IF cmds = <<>> THEN Updated(st, "none", results)
    ELSE LET Pushed(r) ==
                 IF r.err # "none" THEN Updated(r.st, r.err, results)
                 ELSE RunAction(Tail(cmds), r.st, env,
                                Append(results, [kind |-> r.kind, tx |-> r.tx]))
         IN  Pushed(RunCmd(Head(cmds), st, env))

\* A loop that keeps executing the commands that follow a failed one and
\* reports the first error at the end
RECURSIVE RunActionPastErrors(_, _, _, _, _)
RunActionPastErrors(cmds, st, env, results, first_err) ==
    IF cmds = <<>> THEN Updated(st, first_err, results)
    ELSE LET Pushed(r) ==
                 IF r.err # "none" \/ first_err # "none"
                 THEN RunActionPastErrors(Tail(cmds), r.st, env, results,
                                          IF first_err # "none" THEN first_err ELSE r.err)
                 ELSE RunActionPastErrors(Tail(cmds), r.st, env,
                                          Append(results, [kind |-> r.kind, tx |-> r.tx]),
                                          first_err)
         IN  Pushed(RunCmd(Head(cmds), st, env))

update_with_action_past_errors(action, st, env) ==
    RunActionPastErrors(action, st, env, <<>>, "none")

\* ModalEditor::update_with_action
update_with_action(action, st, env) == RunAction(action, st, env, <<>>)

-----------------------------------------------------------------------------
(* Key patterns *)

Exact(evt)     == [m |-> "Exact", evt |-> evt, mods |-> evt.mods]
Number(kmods)  == [m |-> "Number", evt |-> Char("", kmods), mods |-> kmods]
AnyChar(kmods) == [m |-> "AnyChar", evt |-> Char("", kmods), mods |-> kmods]
AnyKey(kmods)  == [m |-> "AnyKey", evt |-> Char("", kmods), mods |-> kmods]
Digit(kmods)   == [m |-> "Digit", evt |-> Char("", kmods), mods |-> kmods]
AnyEvt         == [m |-> "Any", evt |-> Char("", NONE), mods |-> NONE]

\* char::is_ascii_digit
is_ascii_digit(c) == c \in {"0", "1", "2", "3", "4", "5", "6", "7", "8", "9"}

IsDigitEvt(k, kmods) == k.t = "Char" /\ k.mods = kmods /\ is_ascii_digit(k.c)

\* The number of leading digit events of kc
RECURSIVE LeadingDigits(_, _)
LeadingDigits(kc, kmods) ==
    IF kc = <<>> THEN 0
    ELSE IF IsDigitEvt(Head(kc), kmods) THEN 1 + LeadingDigits(Tail(kc), kmods)
    ELSE 0

\* KeyMatcher::try_consume: the number of events it pops off the front of kc
try_consume(matcher, kc) ==
    IF kc = <<>> THEN 0
    ELSE LET k == Head(kc) IN
         CASE matcher.m = "Exact"   -> IF k = matcher.evt THEN 1 ELSE 0
           [] matcher.m = "AnyChar" -> IF k.t = "Char" /\ k.mods = matcher.mods THEN 1 ELSE 0
           [] matcher.m = "AnyKey"  -> IF k.t = "Key" /\ k.mods = matcher.mods THEN 1 ELSE 0
           [] matcher.m = "Number"  -> LeadingDigits(kc, matcher.mods)
           [] matcher.m = "Digit"   -> IF IsDigitEvt(k, matcher.mods) THEN 1 ELSE 0
           [] matcher.m = "Any"     -> 1

\* KeyPatternClause::try_consume: the first unit that consumes something
RECURSIVE clause_try_consume(_, _)
clause_try_consume(clause, kc) ==
    IF clause = <<>> THEN 0
    ELSE LET consumed == try_consume(Head(clause), kc) IN
         IF consumed > 0 THEN consumed ELSE clause_try_consume(Tail(clause), kc)

\* KeyPattern::matches without the final test that the combo is exhausted
RECURSIVE matches_a_prefix(_, _)
matches_a_prefix(pattern, kc) ==
    IF pattern = <<>> THEN TRUE
    ELSE LET consumed == clause_try_consume(Head(pattern), kc) IN
         IF consumed = 0 THEN FALSE
         ELSE matches_a_prefix(Tail(pattern), SubSeq(kc, consumed + 1, Len(kc)))

\* KeyPattern::matches
RECURSIVE matches(_, _)
matches(pattern, kc) ==
    IF pattern = <<>> THEN kc = <<>>
    ELSE LET consumed == clause_try_consume(Head(pattern), kc) IN
         IF consumed = 0 THEN FALSE
         ELSE matches(Tail(pattern), SubSeq(kc, consumed + 1, Len(kc)))

\* TriggerHandler::with builds one (pattern, action) pair
Trigger(clauses, action) == [pattern |-> clauses, action |-> action]

\* TriggerHandler::handle followed by unwrap_or_default
RECURSIVE handle(_, _)
handle(triggers, kc) ==
    IF triggers = <<>> THEN <<>>
    ELSE IF matches(Head(triggers).pattern, kc) THEN Head(triggers).action
    ELSE handle(Tail(triggers), kc)

Esc == Key("Esc", NONE)

\* KeyCombo::ends_with for a single event
ends_with(kc, evt) == kc # <<>> /\ kc[Len(kc)] = evt

-----------------------------------------------------------------------------
(* The shipped modes *)

\* NormalMode::new
NormalTriggers == <<
    Trigger(<< <<Exact(Char("u", NONE))>> >>, <<UndoCurrDocument>>),
    Trigger(<< <<Exact(Char("U", NONE))>> >>, <<RedoCurrDocument>>),
    Trigger(<< <<Exact(Key("Left", NONE)), Exact(Char("h", NONE))>> >>,
            <<Transaction("collapse_sels"), Transaction("move_head_left")>>),
    Trigger(<< <<Exact(Key("Right", NONE)), Exact(Char("l", NONE))>> >>,
            <<Transaction("collapse_sels"), Transaction("move_head_right")>>),
    Trigger(<< <<Exact(Key("Up", NONE)), Exact(Char("k", NONE))>> >>,
            <<Transaction("collapse_sels"), Transaction("move_head_up")>>),
    Trigger(<< <<Exact(Key("Down", NONE)), Exact(Char("j", NONE))>> >>,
            <<Transaction("collapse_sels"), Transaction("move_head_down")>>),
    Trigger(<< <<Exact(Char("f", NONE))>>, <<AnyChar(NONE)>> >>,
            <<Transaction("collapse_sels"), Transaction("move_head_right"),
              Transaction("drop_tail"), Transaction("move_head_right_occurrence")>>),
    Trigger(<< <<Exact(Char("F", NONE))>>, <<AnyChar(NONE)>> >>,
            <<Transaction("collapse_sels"), Transaction("move_head_left"),
              Transaction("drop_tail"), Transaction("move_head_left_occurrence")>>),
    Trigger(<< <<Exact(Char("w", NONE))>> >>,
            <<Transaction("collapse_sels"), Transaction("move_head_right_word_start"),
              Transaction("drop_tail"), Transaction("move_head_right_word_end")>>),
    Trigger(<< <<Exact(Char("W", NONE)), Exact(Char("b", NONE))>> >>,
            <<Transaction("collapse_sels"), Transaction("move_head_left_word_start"),
              Transaction("drop_tail"), Transaction("move_head_left_word_end")>>),
    Trigger(<< <<Exact(Char("%", NONE))>> >>,
            <<Transaction("collapse_sels_force"), Transaction("move_head_file_start"),
              Transaction("drop_tail"), Transaction("move_head_file_end")>>),
    Trigger(<< <<Exact(Char(";", NONE))>> >>, <<Transaction("swap_head_tail")>>),
    Trigger(<< <<Exact(Char(":", NONE))>> >>, <<PushMode("command")>>),
    Trigger(<< <<Exact(Char("x", NONE))>> >>, <<Transaction("select_this_or_next_line")>>),
    Trigger(<< <<Exact(Char("d", NONE))>> >>,
            <<Transaction("delete_sels"), Transaction("collapse_sels")>>),
    Trigger(<< <<Exact(Char("c", NONE))>> >>,
            <<Transaction("delete_sels"), Transaction("collapse_sels"), PushMode("insert")>>),
    Trigger(<< <<Exact(Char("C", NONE))>> >>, <<Transaction("add_sel_down")>>),
    Trigger(<< <<Exact(Char("i", NONE))>> >>,
            <<Transaction("collapse_sels"), PushMode("insert")>>),
    Trigger(<< <<Exact(Char("a", NONE))>> >>,
            <<Transaction("collapse_sels"), Transaction("move_head_right"), PushMode("insert")>>),
    Trigger(<< <<Exact(Char("O", NONE))>> >>,
            <<Transaction("collapse_sels"), Transaction("move_head_line_start"),
              Transaction("insert_newline"), PushMode("insert")>>),
    Trigger(<< <<Exact(Char("o", NONE))>> >>,
            <<Transaction("collapse_sels"), Transaction("move_head_line_end"),
              Transaction("move_head_right"), Transaction("insert_newline"),
              Transaction("move_head_right"), PushMode("insert")>>),
    Trigger(<< <<Exact(Char("v", NONE))>> >>,
            <<Transaction("drop_tail"), PushMode("selection")>>),
    Trigger(<< <<Exact(Char("g", NONE))>> >>, <<PushMode("goto")>>),
    Trigger(<< <<Exact(Esc)>> >>, <<Transaction("collapse_or_reset_sels")>>) >>

\* InsertMode::new
InsertTriggers == <<
    Trigger(<< <<Exact(Char("z", CTRL))>> >>, <<UndoCurrDocument>>),
    Trigger(<< <<Exact(Char("y", CTRL))>> >>, <<RedoCurrDocument>>),
    Trigger(<< <<Exact(Key("Left", NONE))>> >>, <<Transaction("move_head_left")>>),
    Trigger(<< <<Exact(Key("Right", NONE))>> >>, <<Transaction("move_head_right")>>),
    Trigger(<< <<Exact(Key("Up", NONE))>> >>, <<Transaction("move_head_up")>>),
    Trigger(<< <<Exact(Key("Down", NONE))>> >>, <<Transaction("move_head_down")>>),
    Trigger(<< <<Exact(Key("Backspace", NONE))>> >>, <<Transaction("delete_left")>>),
    Trigger(<< <<Exact(Key("Del", NONE))>> >>, <<Transaction("delete_right")>>),
    Trigger(<< <<AnyChar(NONE), Exact(Key("Tab", NONE)), Exact(Key("Enter", NONE))>> >>,
            <<Transaction("insert_key")>>),
    Trigger(<< <<Exact(Esc)>> >>, <<PopMode>>) >>

\* GotoMode::new
GotoTriggers == <<
    Trigger(<< <<Exact(Key("Up", NONE)), Exact(Char("k", NONE)), Exact(Char("g", NONE))>> >>,
            <<Transaction("move_head_file_start"), PopMode>>),
    Trigger(<< <<Exact(Key("Down", NONE)), Exact(Char("j", NONE)), Exact(Char("e", NONE))>> >>,
            <<Transaction("move_head_file_end"), PopMode>>),
    Trigger(<< <<Exact(Key("Left", NONE)), Exact(Char("h", NONE))>> >>,
            <<Transaction("move_head_line_start"), PopMode>>),
    Trigger(<< <<Exact(Key("Right", NONE)), Exact(Char("l", NONE))>> >>,
            <<Transaction("move_head_line_end"), PopMode>>),
    Trigger(<< <<Exact(Esc)>> >>, <<PopMode>>) >>

Handled(action, cmd, panicked) == [action |-> action, curr_cmd |-> cmd, panicked |-> panicked]

\* SelectionMode::handle_combo without the flat_map that drops commands
SelectionHandleUnfiltered(kc) ==
    IF Len(kc) = 1 /\ ends_with(kc, Esc)
    THEN <<Transaction("collapse_sels"), PopMode>>
    ELSE handle(NormalTriggers, kc)

\* SelectionMode::handle_combo
SelectionHandle(kc) ==
    IF Len(kc) = 1 /\ ends_with(kc, Esc)
    THEN <<Transaction("collapse_sels"), PopMode>>
    ELSE SelectSeq(handle(NormalTriggers, kc),
                   LAMBDA mode_resp :
                       ~ \/ (mode_resp.c = "Transaction" /\ mode_resp.arg = "collapse_sels")
                         \/ (mode_resp.c = "PushMode" /\ mode_resp.arg = "insert")
                         \/ (mode_resp.c = "PushMode" /\ mode_resp.arg = "selection"))

\* ALL_COMMANDS, by name
QuitName == <<"q", "u", "i", "t">>
SaveName == <<"s", "a", "v", "e">>
cmd_generators == {QuitName, SaveName}

\* str::trim followed by split_whitespace
RECURSIVE SplitWhitespace(_, _)
SplitWhitespace(str, word) ==
    IF str = <<>> THEN (IF word = <<>> THEN <<>> ELSE <<word>>)
    ELSE IF IsWhitespace(Head(str))
         THEN (IF word = <<>> THEN <<>> ELSE <<word>>) \o SplitWhitespace(Tail(str), <<>>)
         ELSE SplitWhitespace(Tail(str), Append(word, Head(str)))

\* The quit and save action generators
GenerateAction(target_cmd, args) ==
    IF target_cmd = QuitName THEN <<Quit>>
    ELSE <<SaveCurrDocument(IF args = <<>> THEN NoPath ELSE args[1])>>

\* The text CommandMode appends to curr_cmd: newlines and colons dropped,
\* tabs replaced by spaces
RECURSIVE CmdText(_)
CmdText(str) ==
    IF str = <<>> THEN <<>>
    ELSE (IF Head(str) \in {"nl", ":"} THEN <<>>
          ELSE IF Head(str) = "tab" THEN <<"sp">>
          ELSE <<Head(str)>>) \o CmdText(Tail(str))

\* CommandMode::handle_combo.  best is the command that the fuzzy search
\* ranks first for curr_cmd.  The byte slice taken on Backspace panics when
\* it would cut a multi-byte character.
CommandHandle(kc, cmd, best) ==
    IF Len(kc) = 1 /\ ends_with(kc, Esc) THEN Handled(<<PopMode>>, <<>>, FALSE)
    ELSE IF Len(kc) = 1 /\ ends_with(kc, Key("Enter", NONE)) /\ StrByteLen(cmd) > 0 THEN
        LET args == SplitWhitespace(cmd, <<>>)
            target_cmd == IF args = <<>> THEN <<>> ELSE Head(args)
        IN  IF target_cmd \in cmd_generators
            THEN Handled(<<PopMode, ResetCombo>> \o GenerateAction(target_cmd, Tail(args)),
                         <<>>, FALSE)
            ELSE Handled(<<PopMode, ThrowErr("invalid command")>>, <<>>, FALSE)
    ELSE
        LET is_tab == Len(kc) = 1 /\ ends_with(kc, Key("Tab", NONE))
            is_bs == Len(kc) = 1 /\ ends_with(kc, Key("Backspace", NONE))
            cmd1 == IF is_tab /\ StrByteLen(best) >= StrByteLen(cmd) THEN best ELSE cmd
            cuts == is_bs /\ cmd1 # <<>> /\ ByteLen(cmd1[Len(cmd1)]) > 1
            cmd2 == IF is_bs /\ cmd1 # <<>> THEN SubSeq(cmd1, 1, Len(cmd1) - 1) ELSE cmd1
        IN  IF cuts THEN Handled(<<>>, cmd1, TRUE)
            ELSE Handled(<<ResetCombo>>, cmd2 \o CmdText(extract_text(kc)), FALSE)

\* EditorMode::handle_combo of the mode with the given id
handle_combo(mode, kc, cmd, best) ==
    CASE mode = "normal"    -> Handled(handle(NormalTriggers, kc), cmd, FALSE)
      [] mode = "insert"    -> Handled(handle(InsertTriggers, kc), cmd, FALSE)
      [] mode = "goto"      -> Handled(handle(GotoTriggers, kc), cmd, FALSE)
      [] mode = "selection" -> Handled(SelectionHandle(kc), cmd, FALSE)
      [] mode = "command"   -> CommandHandle(kc, cmd, best)

-----------------------------------------------------------------------------
(* ModalEditor::update *)

UpdateResult(st, err, results, action, panicked) ==
    [st |-> st, err |-> err, results |-> results, action |-> action, panicked |-> panicked]

ComboResetted == [kind |-> "ComboResetted", tx |-> <<>>]

\* A reset key that counts only after two other keys
is_reset_combo_after_two(kc) == Len(kc) > 2 /\ ends_with(kc, Esc)

\* The test of update for the reset key: Esc at the end of a longer combo
is_reset_combo(kc) == Len(kc) > 1 /\ ends_with(kc, Esc)

update(st, env) ==
    IF is_reset_combo(st.curr_combo)
    THEN UpdateResult([st EXCEPT !.curr_combo = <<>>], "none", <<ComboResetted>>, <<>>, FALSE)
    ELSE IF st.active_modes = <<>> \/ Head(st.active_modes) \notin registered_modes
    THEN UpdateResult(st, "NoMode", <<>>, <<>>, FALSE)
    ELSE
    LET Finished(h, r) ==
            IF r.err = "panic" THEN UpdateResult(r.st, "none", <<>>, h.action, TRUE)
            ELSE IF r.err # "none" THEN UpdateResult(r.st, r.err, r.results, h.action, FALSE)
            ELSE IF Len(r.results) > 0
                 THEN UpdateResult([r.st EXCEPT !.curr_combo = <<>>], "none", r.results,
                                   h.action, FALSE)
                 ELSE UpdateResult(r.st, "none", r.results, h.action, FALSE)
        Handle(h) ==
            IF h.panicked
            THEN UpdateResult([st EXCEPT !.curr_cmd = h.curr_cmd], "none", <<>>, <<>>, TRUE)
            ELSE Finished(h, update_with_action(h.action, [st EXCEPT !.curr_cmd = h.curr_cmd], env))
    IN  Handle(handle_combo(Head(st.active_modes), st.curr_combo, st.curr_cmd, env.best))

\* ModalEditor::receive_key
receive_key(st, evt) == [st EXCEPT !.curr_combo = Append(st.curr_combo, evt)]

-----------------------------------------------------------------------------
(* The state as a record, for snapshots *)

Snapshot ==
    [doc_map |-> doc_map, prev |-> prev, next |-> next,
     active_modes |-> active_modes, curr_combo |-> curr_combo, curr_cmd |-> curr_cmd]

-----------------------------------------------------------------------------
(* GenSpec: one transaction generator applied through modify_with_tx_gen   *)
(* to a document with several selections, then undone.                     *)

MaxSels == 3
MaxTailedSels == 2
MaxGenOps == 1

\* "a" followed by a combining mark is one grapheme cluster of two chars.
GenBufs == {<<"a", "b", "c">>, <<"a", "cm", "b">>}

\* The texts a trigger combo carries to insert_key
GenTexts == {<<"x">>, <<"x", "y">>}

\* The combo whose extract_text is str
TextCombo(str) == [i \in 1..Len(str) |-> Char(str[i], NONE)]

\* Selection maps with ids 0..k-1, every head and tail within the buffer;
\* maps of more than MaxTailedSels selections hold cursors only
SelectionMaps(buf) ==
    UNION {[0..(k - 1) -> {TextSelection(h, t) :
                              h \in 0..Len(buf),
                              t \in {None} \cup (IF k <= MaxTailedSels THEN 0..Len(buf) ELSE {})}]
              : k \in 1..MaxSels}

\* Scenario C of the specification: two cursors in "abcdef"
ScenarioBuf == <<"a", "b", "c", "d", "e", "f">>
ScenarioSels == (0 :> TextSelection(2, None)) @@ (1 :> TextSelection(5, None))

GenInit ==
    /\ \/ \E buf \in GenBufs : \E sels \in SelectionMaps(buf) :
              doc_map = DocumentMap(0, (0 :> Document(FilePath, buf, sels, FALSE)))
       \/ doc_map = DocumentMap(0, (0 :> Document(FilePath, ScenarioBuf, ScenarioSels, FALSE)))
    /\ prev = <<>>
    /\ next = <<>>
    /\ active_modes = <<"normal">>
    /\ curr_combo = <<>>
    /\ curr_cmd = <<>>
    /\ pending = <<>>
    /\ pre = [st |-> EditorState(doc_map, <<>>, <<>>, <<"normal">>, <<>>, <<>>)]
    /\ last = [op |-> "init", trigger |-> <<>>, ord |-> <<>>, some |-> FALSE, panicked |-> FALSE]
    /\ nsteps = 0
    /\ overflow_checks \in BOOLEAN
    /\ NoServers

\* HistoricalEditorState::modify_with_tx_gen with the generator tx_gen
ApplyGen(tx_gen, trigger) ==
    /\ nsteps < MaxGenOps
    /\ \E ord \in IterOrders(doc_map) :
        \E r \in {modify_with_tx_gen(trigger, tx_gen, Snapshot,
                                     [ord |-> ord, checks |-> overflow_checks])} :
        /\ doc_map' = r.st.doc_map
        /\ prev' = r.st.prev
        /\ next' = r.st.next
        /\ pre' = [st |-> Snapshot]
        /\ last' = [op |-> tx_gen, trigger |-> trigger, ord |-> ord, some |-> r.some,
                    panicked |-> r.panicked]
        /\ nsteps' = nsteps + 1
        /\ UNCHANGED <<server_vars, active_modes, curr_combo, curr_cmd, pending, overflow_checks>>

InsertKey == \E str \in GenTexts : ApplyGen("insert_key", TextCombo(str))

DeleteLeft == ApplyGen("delete_left", <<Key("Backspace", NONE)>>)

DeleteRight == ApplyGen("delete_right", <<Key("Del", NONE)>>)

DeleteSels == ApplyGen("delete_sels", <<Char("d", NONE)>>)

InsertNewline == ApplyGen("insert_newline", <<Char("o", NONE)>>)

\* HistoricalEditorState::undo right after a generator was applied
UndoGen ==
    /\ last.op \notin {"init", "undo"}
    /\ last.some
    /\ \E r \in {undo(Snapshot)} :
        /\ doc_map' = r.st.doc_map
        /\ prev' = r.st.prev
        /\ next' = r.st.next
        /\ last' = [op |-> "undo", trigger |-> last.trigger, ord |-> last.ord,
                    some |-> r.some, panicked |-> FALSE, of |-> last.op]
        /\ UNCHANGED <<server_vars, active_modes, curr_combo, curr_cmd, pending, pre, nsteps, overflow_checks>>

GenNext == InsertKey \/ DeleteLeft \/ DeleteRight \/ DeleteSels \/ InsertNewline \/ UndoGen

GenSpec == GenInit /\ [][GenNext]_vars

-----------------------------------------------------------------------------
(* EditorSpec: the editor as main builds it, fed with key events.  One     *)
(* step is the editor worker handling one UIEvent: receive_key followed by *)
(* update.                                                                 *)

MaxKeys == 3

\* The contents of the file named on the command line
EditorBufs == {<<"a">>, <<"a", "nl", "b">>}

\* Document::new_from_file: the file's content, or an empty scratch
\* document when the file cannot be read
InitialDocs == {NewEmpty} \cup {NewFromFile(b) : b \in EditorBufs}

\* The key events the frontend sends
EditorKeys ==
    {Char(c, NONE) : c \in {"u", "U", "h", "l", "d", "c", "C", "i", "v", "x", ";", ":", "g", "ee"}}
        \cup {Key(k, NONE) : k \in {"Esc", "Enter", "Tab", "Backspace"}}
        \cup {Char("z", CTRL)}

\* main: the default document map, then the start-up transaction through
\* modify_with_tx, then ModalEditor::new with NormalMode as the base mode
Startup(file_doc) ==
    modify_with_tx(<<PopDoc(0), CreateDoc(file_doc)>>,
                   EditorState(DefaultDocumentMap, <<>>, <<>>, <<"normal">>, <<>>, <<>>)).st

NoEnv == [ord |-> <<>>, checks |-> FALSE, fs_ok |-> TRUE, best |-> <<>>]

NoKey == [op |-> "init", evt |-> Esc, env |-> NoEnv, action |-> <<>>, err |-> "none",
          results |-> <<>>, panicked |-> FALSE, quit |-> FALSE, fwd |-> FALSE, clean |-> TRUE]

EditorInit ==
    \E file_doc \in InitialDocs :
        LET st == Startup(file_doc) IN
        /\ doc_map = st.doc_map
        /\ prev = st.prev
        /\ next = st.next
        /\ active_modes = st.active_modes
        /\ curr_combo = st.curr_combo
        /\ curr_cmd = st.curr_cmd
        /\ pending = <<>>
        /\ pre = [st |-> st, fwd |-> FALSE, redo_len |-> 0]
        /\ last = NoKey
        /\ nsteps = 0
        /\ overflow_checks \in BOOLEAN
        /\ NoServers

\* The outcomes of std::fs::write, where the key can lead to a save
WriteOutcomes(modes, evt) ==
    IF modes # <<>> /\ Head(modes) = "command" /\ evt = Key("Enter", NONE)
    THEN BOOLEAN ELSE {TRUE}

\* The commands the fuzzy search may rank first, where the key asks for it
BestMatches(modes, evt) ==
    IF modes # <<>> /\ Head(modes) = "command" /\ evt = Key("Tab", NONE)
    THEN cmd_generators ELSE {QuitName}

\* The action ended with a successfully applied non-empty forward transaction
EndsWithForwardTx(r) ==
    /\ r.err = "none"
    /\ r.action # <<>>
    /\ Len(r.results) = Len(r.action)
    /\ r.action[Len(r.action)].c = "Transaction"
    /\ r.results[Len(r.results)].tx # <<>>

\* Every command of the action succeeded, and an undo or redo among them
\* applied the transaction it popped
AllApplied(r, st) ==
    /\ r.err = "none"
    /\ ~r.panicked
    /\ \A i \in 1..Len(r.action) :
         /\ r.action[i].c = "UndoCurrDocument" => Len(r.st.next) = Len(st.next) + 1
         /\ r.action[i].c = "RedoCurrDocument" => Len(r.st.prev) = Len(st.prev) + 1

QuitRequested(results) == \E i \in 1..Len(results) : results[i].kind = "QuitRequested"

\* EditorServer::run, the UIEvent arm
KeyPress(evt) ==
    /\ nsteps < MaxKeys
    /\ ~last.panicked
    /\ ~last.quit
    /\ \E ord \in IterOrders(doc_map), fs_ok \in WriteOutcomes(active_modes, evt),
          best \in BestMatches(active_modes, evt) :
        \E env \in {[ord |-> ord, checks |-> overflow_checks, fs_ok |-> fs_ok, best |-> best]} :
        \E r \in {update(receive_key(Snapshot, evt), env)} :
            /\ doc_map' = r.st.doc_map
            /\ prev' = r.st.prev
            /\ next' = r.st.next
            /\ active_modes' = r.st.active_modes
            /\ curr_combo' = r.st.curr_combo
            /\ curr_cmd' = r.st.curr_cmd
            /\ pre' = [st |-> Snapshot, fwd |-> last.fwd, redo_len |-> Len(pre.st.next)]
            /\ last' = [op |-> "key", evt |-> evt, env |-> env, action |-> r.action,
                        err |-> r.err, results |-> r.results, panicked |-> r.panicked,
                        quit |-> r.err = "none" /\ QuitRequested(r.results),
                        fwd |-> EndsWithForwardTx(r),
                        clean |-> last.clean /\ AllApplied(r, Snapshot)]
            /\ nsteps' = nsteps + 1
            /\ UNCHANGED <<server_vars, pending, overflow_checks>>

EditorNext == \E evt \in EditorKeys : KeyPress(evt)

EditorSpec == EditorInit /\ [][EditorNext]_vars

-----------------------------------------------------------------------------
(* TxSpec: transactions built from arbitrary primitives, applied to a      *)
(* document map.                                                           *)

MaxTxLen == 2
MaxApplies == 1

TxBufs == {<<>>, <<"a", "b">>}

TxDocs == {Document(NoSource, b, (0 :> TextSelection(0, None)), FALSE) : b \in TxBufs}
            \cup {Document(NoSource, <<"a", "b">>,
                           (0 :> TextSelection(1, 0)) @@ (1 :> TextSelection(2, None)), FALSE)}

TxDocMaps ==
    {DocumentMap(0, (0 :> d)) : d \in TxDocs}
    \cup {DocumentMap(c, (0 :> d) @@ (1 :> NewEmpty)) : c \in {0, 1}, d \in TxDocs}

TxPrims ==
    {InsText(0, at, s) : at \in {0, 2}, s \in {<<"a">>, <<"ee">>}}
    \cup {InsText(2, 0, <<"a">>)}
    \cup {DelRange(0, 0, 1), DelRange(0, 1, 2), DelRange(0, 1, 0), DelRange(0, 0, 3)}
    \cup {SetHead(0, 0, 1), SetHead(0, 1, 0), SetHead(1, 0, 1)}
    \cup {SetTail(0, 0, 1), SetTail(0, 0, None)}
    \cup {SwitchDoc(0), SwitchDoc(1), SwitchDoc(2)}
    \cup {CreateDoc(NewEmpty)}
    \cup {PopDoc(0), PopDoc(1)}
    \cup {CreateSel(0, 1, TextSelection(1, None)), CreateSel(0, 0, TextSelection(2, None)),
          CreateSel(2, 0, TextSelection(0, None))}
    \cup {DeleteSel(0, 0), DeleteSel(0, 1), DeleteSel(2, 0)}

TxInit ==
    /\ doc_map \in TxDocMaps
    /\ prev = <<>>
    /\ next = <<>>
    /\ active_modes = <<>>
    /\ curr_combo = <<>>
    /\ curr_cmd = <<>>
    /\ pending = <<>>
    /\ pre = [doc_map |-> doc_map]
    /\ last = [op |-> "init"]
    /\ nsteps = 0
    /\ overflow_checks \in BOOLEAN
    /\ NoServers

\* Transaction::append_mod
AppendMod(pm) ==
    /\ nsteps < MaxApplies
    /\ Len(pending) < MaxTxLen
    /\ pending' = Append(pending, pm)
    /\ UNCHANGED <<server_vars, doc_map, prev, next, active_modes, curr_combo, curr_cmd, pre, last, nsteps,
                   overflow_checks>>

\* Transaction::apply_tx on the transaction built so far
ApplyTx ==
    /\ nsteps < MaxApplies
    /\ LET r == apply_tx(pending, doc_map) IN
        /\ doc_map' = r.dm
        /\ last' = [op |-> "apply_tx", tx |-> pending, ok |-> r.ok, inv |-> r.inv]
    /\ pre' = [doc_map |-> doc_map]
    /\ pending' = <<>>
    /\ nsteps' = nsteps + 1
    /\ UNCHANGED <<server_vars, prev, next, active_modes, curr_combo, curr_cmd, overflow_checks>>

TxNext ==
    \/ \E pm \in TxPrims : AppendMod(pm)
    \/ ApplyTx

TxSpec == TxInit /\ [][TxNext]_vars

-----------------------------------------------------------------------------
(* CmdSpec: the editor as main builds it, driven one command at a time.    *)
(* A step is update_with_action on a one-command action, or                *)
(* modify_with_tx on a transaction, as the modes and main call them.       *)

MaxCmds == 3

\* The commands handed to update_with_action; "visual" is no registered mode
CmdInputs ==
    {PushMode(m) : m \in {"insert", "goto", "selection", "visual"}}
        \cup {PopMode, UndoCurrDocument, RedoCurrDocument, ResetCombo}
        \cup {Transaction(g) : g \in {"add_sel_down", "collapse_or_reset_sels"}}

\* The transactions handed to modify_with_tx; document 5 does not exist
CmdTxs == {<<>>, <<InsText(0, 0, <<"a">>)>>, <<SetHead(0, 0, 0), SwitchDoc(5)>>}

CmdInit ==
    \E file_doc \in InitialDocs :
        LET st == Startup(file_doc) IN
        /\ doc_map = st.doc_map
        /\ prev = st.prev
        /\ next = st.next
        /\ active_modes = st.active_modes
        /\ curr_combo = st.curr_combo
        /\ curr_cmd = st.curr_cmd
        /\ pending = <<>>
        /\ pre = [st |-> st]
        /\ last = [op |-> "init"]
        /\ nsteps = 0
        /\ overflow_checks \in BOOLEAN
        /\ NoServers

\* ModalEditor::update_with_action on the action [cmd]
RunCommand(cmd) ==
    /\ nsteps < MaxCmds
    /\ \E ord \in IterOrders(doc_map) :
        \E env \in {[ord |-> ord, checks |-> overflow_checks, fs_ok |-> TRUE, best |-> QuitName]} :
        \E r \in {update_with_action(<<cmd>>, Snapshot, env)} :
            /\ doc_map' = r.st.doc_map
            /\ prev' = r.st.prev
            /\ next' = r.st.next
            /\ active_modes' = r.st.active_modes
            /\ curr_combo' = r.st.curr_combo
            /\ curr_cmd' = r.st.curr_cmd
            /\ pre' = [st |-> Snapshot]
            /\ last' = [op |-> "cmd", cmd |-> cmd, err |-> r.err, results |-> r.results]
            /\ nsteps' = nsteps + 1
            /\ UNCHANGED <<server_vars, pending, overflow_checks>>

\* HistoricalEditorState::modify_with_tx
ModifyWithTx(tx) ==
    /\ nsteps < MaxCmds
    /\ \E r \in {modify_with_tx(tx, Snapshot)} :
        /\ doc_map' = r.st.doc_map
        /\ prev' = r.st.prev
        /\ next' = r.st.next
        /\ pre' = [st |-> Snapshot]
        /\ last' = [op |-> "modify_with_tx", tx |-> tx, ok |-> r.ok]
        /\ nsteps' = nsteps + 1
        /\ UNCHANGED <<server_vars, active_modes, curr_combo, curr_cmd, pending, overflow_checks>>

CmdNext ==
    \/ \E cmd \in CmdInputs : RunCommand(cmd)
    \/ \E tx \in CmdTxs : ModifyWithTx(tx)

CmdSpec == CmdInit /\ [][CmdNext]_vars

-----------------------------------------------------------------------------
(* PatternSpec: a key pattern matched against the combo that receive_key   *)
(* builds, as TriggerHandler::handle does for every registered pattern.    *)

MaxComboLen == 3

\* The key events received
PatternKeys == {Char("1", NONE), Char("a", NONE), Char("1", CTRL), Esc}

\* The patterns: one clause, several clauses, several matchers in a clause,
\* every kind of matcher, the empty pattern and the empty clause
PatternInputs ==
    { << <<Exact(Char("a", NONE))>> >>,
      << <<Number(NONE)>>, <<Exact(Char("1", NONE))>> >>,
      << <<Exact(Char("a", NONE))>>, <<AnyChar(NONE)>> >>,
      << <<Digit(NONE), Exact(Char("a", NONE))>>, <<AnyEvt>> >>,
      << <<AnyKey(NONE), Number(CTRL)>> >>,
      << <<Number(NONE), AnyChar(NONE)>>, <<Exact(Esc)>> >>,
      << <<>> >>,
      <<>> }

PatternInit ==
    /\ pending \in PatternInputs
    /\ doc_map = DefaultDocumentMap
    /\ prev = <<>>
    /\ next = <<>>
    /\ active_modes = <<"normal">>
    /\ curr_combo = <<>>
    /\ curr_cmd = <<>>
    /\ pre = [st |-> Snapshot]
    /\ last = [op |-> "init"]
    /\ nsteps = 0
    /\ overflow_checks = FALSE
    /\ NoServers

\* ModalEditor::receive_key
ReceiveKey(evt) ==
    /\ Len(curr_combo) < MaxComboLen
    /\ curr_combo' = receive_key(Snapshot, evt).curr_combo
    /\ last' = [op |-> "receive_key"]
    /\ UNCHANGED <<server_vars, doc_map, prev, next, active_modes, curr_cmd, pending, pre, nsteps,
                   overflow_checks>>

\* KeyPattern::matches on a clone of the combo
MatchCombo ==
    /\ last.op # "matches"
    /\ last' = [op |-> "matches", res |-> matches(pending, curr_combo)]
    /\ UNCHANGED <<server_vars, doc_map, prev, next, active_modes, curr_combo, curr_cmd, pending, pre,
                   nsteps, overflow_checks>>

PatternNext == (\E evt \in PatternKeys : ReceiveKey(evt)) \/ MatchCombo

PatternSpec == PatternInit /\ [][PatternNext]_vars

-----------------------------------------------------------------------------
(* The renderer's Stylizer: style attributes layered on character ranges   *)

\* RGBAColor values, and Option<RGBAColor>::None
Colors == {"red", "blue"}
NoColor == "none"

\* StyleAttr
Fg(color) == [a |-> "Fg", color |-> color]
Bg(color) == [a |-> "Bg", color |-> color]
Highlight == [a |-> "Highlight", color |-> NoColor]

\* StyleAttrMod
AddAttr(attr) == [attr |-> attr, m |-> "AddAttr"]
RemAttr(attr) == [attr |-> attr, m |-> "RemAttr"]

ConcreteStyle(fg, bg, highlight) == [bg |-> bg, fg |-> fg, highlight |-> highlight]
DefaultStyle == ConcreteStyle(NoColor, NoColor, FALSE)

\* ConcreteStyle::new: the attributes folded in order over the default style
RECURSIVE StyleFold(_, _)
StyleFold(attr_set, style) ==
    IF attr_set = <<>> THEN style
    ELSE StyleFold(Tail(attr_set),
                   CASE Head(attr_set).a = "Fg" -> [style EXCEPT !.fg = Head(attr_set).color]
                     [] Head(attr_set).a = "Bg" -> [style EXCEPT !.bg = Head(attr_set).color]
                     [] Head(attr_set).a = "Highlight" -> [style EXCEPT !.highlight = TRUE])

ConcreteStyle_new(attr_set) == StyleFold(attr_set, DefaultStyle)

\* IntoIterator for ConcreteStyle
StyleAttrs(style) ==
    (IF style.fg # NoColor THEN <<Fg(style.fg)>> ELSE <<>>)
        \o (IF style.bg # NoColor THEN <<Bg(style.bg)>> ELSE <<>>)
        \o (IF style.highlight THEN <<Highlight>> ELSE <<>>)

\* Vec::swap_remove at the 1-based index idx: the last element takes the
\* place of the removed one
swap_remove(v, idx) ==
    IF idx = Len(v) THEN SubSeq(v, 1, Len(v) - 1)
    ELSE [SubSeq(v, 1, Len(v) - 1) EXCEPT ![idx] = v[Len(v)]]

\* A fold step whose RemAttr removes every equal attribute
ApplyAttrModRemovingAll(v, attr_mod) ==
    IF attr_mod.m = "AddAttr" THEN Append(v, attr_mod.attr)
    ELSE SelectSeq(v, LAMBDA a : a # attr_mod.attr)

\* One step of the fold of extend_attrs
ApplyAttrMod(v, attr_mod) ==
    IF attr_mod.m = "AddAttr" THEN Append(v, attr_mod.attr)
    ELSE IF \E i \in 1..Len(v) : v[i] = attr_mod.attr
         THEN swap_remove(v, SetMin({i \in 1..Len(v) : v[i] = attr_mod.attr}))
         ELSE v

RECURSIVE extend_attrs(_, _)
extend_attrs(attrs, mods) ==
    IF mods = <<>> THEN attrs
    ELSE extend_attrs(ApplyAttrMod(attrs, Head(mods)), Tail(mods))

\* BTreeMap::entry(point).or_default().push(attr_mod)
PushMod(points, point, attr_mod) ==
    IF point \in DOMAIN points THEN [points EXCEPT ![point] = Append(@, attr_mod)]
    ELSE points @@ (point :> <<attr_mod>>)

add_attribute(points, point, style_attr) == PushMod(points, point, AddAttr(style_attr))
remove_attribute(points, point, style_attr) == PushMod(points, point, RemAttr(style_attr))

RECURSIVE layer_region_style(_, _, _, _)
layer_region_style(points, start, end, attrs) ==
    IF attrs = <<>> THEN points
    ELSE layer_region_style(
             remove_attribute(add_attribute(points, start, Head(attrs)), end, Head(attrs)),
             start, end, Tail(attrs))

\* The keys of the BTreeMap in iteration order
RECURSIVE Ascending(_)
Ascending(S) == IF S = {} THEN <<>> ELSE <<SetMin(S)>> \o Ascending(S \ {SetMin(S)})

\* The scan of compute_regions over the windows of consecutive points
RECURSIVE ScanRegions(_, _, _)
ScanRegions(points, keys, curr_attrs) ==
    IF Len(keys) < 2 THEN <<>>
    ELSE LET Emit(attrs) ==
                 <<[end |-> keys[2], start |-> keys[1], style |-> ConcreteStyle_new(attrs)]>>
                     \o ScanRegions(points, Tail(keys), attrs)
         IN  Emit(extend_attrs(curr_attrs, points[keys[1]]))

compute_regions(points) == ScanRegions(points, Ascending(DOMAIN points), <<>>)

-----------------------------------------------------------------------------
(* StylizerSpec: styles layered on a fresh Stylizer                        *)

MaxLayers == 3

StylePoints == {0, 10, 15, 20}

\* The attribute lists layered: single attributes, ConcreteStyles through
\* their IntoIterator, and the default style, which has no attribute
StyleInputs ==
    {<<Highlight>>, <<Fg("red")>>, <<Fg("blue")>>, <<Bg("red")>>,
     StyleAttrs(ConcreteStyle_new(<<Highlight, Fg("red")>>)),
     StyleAttrs(ConcreteStyle("blue", "blue", TRUE)), StyleAttrs(DefaultStyle)}

StylizerInit ==
    /\ stylization_points = <<>>
    /\ last = [layers |-> <<>>, op |-> "init"]
    /\ doc_map = DefaultDocumentMap
    /\ prev = <<>>
    /\ next = <<>>
    /\ active_modes = <<>>
    /\ curr_combo = <<>>
    /\ curr_cmd = <<>>
    /\ pending = <<>>
    /\ pre = <<>>
    /\ nsteps = 0
    /\ overflow_checks = FALSE
    /\ view = <<>>
    /\ typing = <<>>
    /\ evt_chan = <<>>
    /\ incoming = <<>>
    /\ outgoing = <<>>
    /\ worker = <<>>
    /\ subscribers = <<>>

\* Stylizer::layer_region_style; last.layers lists the calls made so far
LayerRegionStyle(start, end, attrs) ==
    /\ Len(last.layers) < MaxLayers
    /\ start < end
    /\ stylization_points' = layer_region_style(stylization_points, start, end, attrs)
    /\ last' = [layers |-> Append(last.layers, [attrs |-> attrs, end |-> end, start |-> start]),
                op |-> "layer_region_style"]
    /\ UNCHANGED <<doc_map, prev, next, active_modes, curr_combo, curr_cmd, pending, pre, nsteps,
                   overflow_checks, view, typing, evt_chan, incoming, outgoing, worker, subscribers>>

\* Stylizer::reset
ResetStylizer ==
    /\ last.layers # <<>>
    /\ stylization_points' = <<>>
    /\ last' = [layers |-> <<>>, op |-> "reset"]
    /\ UNCHANGED <<doc_map, prev, next, active_modes, curr_combo, curr_cmd, pending, pre, nsteps,
                   overflow_checks, view, typing, evt_chan, incoming, outgoing, worker, subscribers>>

StylizerNext ==
    \/ \E start, end \in StylePoints, attrs \in StyleInputs : LayerRegionStyle(start, end, attrs)
    \/ ResetStylizer

StylizerSpec == StylizerInit /\ [][StylizerNext]_vars

-----------------------------------------------------------------------------
(* The editor server, the renderer server and the highlight server         *)

\* DocumentView
DocumentView(x_offset, y_offset, max_height, max_width) ==
    [max_height |-> max_height, max_width |-> max_width, x_offset |-> x_offset,
     y_offset |-> y_offset]

DefaultView == DocumentView(0, 0, 0, 0)

\* The scan of map_to_visual_position over the graphemes from the iterator
\* it on: the width summed up to the last grapheme that ends before
\* char_offset characters, w_last, or 0 when there is none
RECURSIVE VisualWalk(_, _, _, _, _, _)
VisualWalk(it, buf, char_offset, c_sum, w_sum, w_last) ==
    LET Walk(r) ==
            IF ~r.some \/ c_sum + Len(r.g) >= char_offset THEN w_last
            ELSE VisualWalk(r.it, buf, char_offset, c_sum + Len(r.g), w_sum + StrWidth(r.g),
                            w_sum + StrWidth(r.g))
    IN  Walk(next_grapheme(it, buf))

\* DocumentView::map_to_visual_position
map_to_visual_position(char_idx, buf) ==
    LET y_offset == Max2(try_char_to_line(buf, char_idx), 0)
        line_start_idx == Max2(try_line_to_char(buf, y_offset), 0)
    IN  <<VisualWalk(graphemes(buf, line_start_idx), buf, char_idx - line_start_idx, 0, 0, 0),
          y_offset>>

\* ModalEditor::update_view
update_view(v, dm) ==
    LET primary_head == IF HasCurrDoc(dm) /\ 0 \in DOMAIN CurrDoc(dm).selections
                        THEN CurrDoc(dm).selections[0].head ELSE 0
        pos == IF HasCurrDoc(dm) THEN map_to_visual_position(primary_head, CurrDoc(dm).buf)
               ELSE <<0, 0>>
        pillow == 10
        Diff(p, offset, max) ==
            SatSub(p, SatSub(offset + max, pillow)) - SatSub(offset + pillow, p)
    IN  [v EXCEPT !.x_offset = Max2(v.x_offset + Diff(pos[1], v.x_offset, v.max_width), 0),
                  !.y_offset = Max2(v.y_offset + Diff(pos[2], v.y_offset, v.max_height), 0)]

\* ModalEditor::summarize (the display of the mode is left out)
summarize(st, v) ==
    [curr_buffer_idx |-> st.doc_map.cur,
     curr_combo |-> st.curr_combo,
     curr_doc |-> IF HasCurrDoc(st.doc_map) THEN CurrDoc(st.doc_map) ELSE NewEmpty,
     curr_mode |-> IF st.active_modes # <<>> /\ Head(st.active_modes) \in registered_modes
                   THEN Head(st.active_modes) ELSE "",
     view |-> v]

NoSummary == summarize(EditorState(DefaultDocumentMap, <<>>, <<>>, <<>>, <<>>, <<>>), DefaultView)
NoResult == [kind |-> "none", tx |-> <<>>]

\* EditorServerReq
Req(kind, evt, a, b, style) == [a |-> a, b |-> b, evt |-> evt, r |-> kind, style |-> style]
UIEvent(evt) == Req("UIEvent", evt, 0, 0, DefaultStyle)
UpdateViewEvent(new_width, new_height) == Req("UpdateViewEvent", Esc, new_width, new_height, DefaultStyle)
StylizeEvent(start, end, style) == Req("StylizeEvent", Esc, start, end, style)

\* EditorServerMsg
Msg(m, err, result, a, b, style, summary) ==
    [a |-> a, b |-> b, err |-> err, m |-> m, result |-> result, style |-> style,
     summary |-> summary]
QuitRequestedMsg == Msg("QuitRequested", "none", NoResult, 0, 0, DefaultStyle, NoSummary)
ErrorThrown(err) == Msg("ErrorThrown", err, NoResult, 0, 0, DefaultStyle, NoSummary)
EditorResult(result, summary) == Msg("EditorResult", "none", result, 0, 0, DefaultStyle, summary)
StylizeInit(summary) == Msg("StylizeInit", "none", NoResult, 0, 0, DefaultStyle, summary)
Stylize(start, end, style, summary) == Msg("Stylize", "none", NoResult, start, end, style, summary)
StylizeEnd(summary) == Msg("StylizeEnd", "none", NoResult, 0, 0, DefaultStyle, summary)
ViewUpdated(summary) == Msg("ViewUpdated", "none", NoResult, 0, 0, DefaultStyle, summary)

\* The connections in the order of new_connection in main
Renderer == 1
Highlighter == 2

\* A send that delivers to the first connection only
broadcast_to_first(chans, msg) == [chans EXCEPT ![1] = Append(@, msg)]

\* EditorServer::broadcast: the message is appended to every outgoing channel
broadcast(chans, msg) == [c \in DOMAIN chans |-> Append(chans[c], msg)]

\* EditorServer::handle_editor_results: the messages to broadcast, in order,
\* and whether the loop continues
RECURSIVE handle_editor_results(_, _)
handle_editor_results(results, summary) ==
    IF results = <<>> THEN [continue |-> TRUE, msgs |-> <<>>]
    ELSE IF Head(results).kind = "QuitRequested"
         THEN [continue |-> FALSE, msgs |-> <<QuitRequestedMsg>>]
    ELSE LET Then(rest) ==
                 [rest EXCEPT !.msgs =
                     <<IF Head(results).kind = "ErrorThrown" THEN ErrorThrown("ModeError")
                       ELSE EditorResult(Head(results), summary)>> \o @]
         IN  Then(handle_editor_results(Tail(results), summary))

\* The worker thread: pc is its position in the loop of run, outbox the
\* messages the current request still has to broadcast, after what follows
\* the broadcasts
Worker(pc, outbox, after) == [after |-> after, outbox |-> outbox, pc |-> pc]

\* The receiver of the incoming channel is dropped when the worker thread ends
WorkerGone == worker.pc \in {"stopped", "panicked"}

-----------------------------------------------------------------------------
(* ServerSpec: the threads started by main, and the frontend               *)

MaxHighlights == 1

\* RendererEvent
KeyEvent(evt) == [a |-> 0, b |-> 0, e |-> "KeyEvent", evt |-> evt]
Resized(new_width, new_height) == [a |-> new_width, b |-> new_height, e |-> "Resized", evt |-> Esc]

\* What the user does at the terminal, from the start on
UserInputs ==
    {<<KeyEvent(Char(":", NONE)), KeyEvent(Key("Tab", NONE)), KeyEvent(Key("Enter", NONE)),
       KeyEvent(Char(":", NONE))>>,
     <<Resized(80, 24), KeyEvent(Char(":", NONE)), KeyEvent(Char("x", NONE)),
       KeyEvent(Key("Enter", NONE))>>,
     <<Resized(80, 24), Resized(80, 24), KeyEvent(Char("i", NONE))>>}

\* The style syntect gives a token
TokenStyles == {ConcreteStyle("red", "blue", FALSE)}

\* A thread of a connection: pc is its position in its loop, todo the tokens
\* the highlighter still has to send, rounds the highlightings started, got
\* the messages received so far
Thread(pc) == [got |-> <<>>, pc |-> pc, rounds |-> 0, todo |-> 0]

ServerInit ==
    \E file_doc \in {NewFromFile(<<"a">>)} :
        LET st == Startup(file_doc) IN
        /\ doc_map = st.doc_map
        /\ prev = st.prev
        /\ next = st.next
        /\ active_modes = st.active_modes
        /\ curr_combo = st.curr_combo
        /\ curr_cmd = st.curr_cmd
        /\ pending = <<>>
        /\ pre = <<>>
        /\ last = [handled |-> <<>>, log |-> <<>>, op |-> "init", sent |-> <<>>]
        /\ nsteps = 0
        /\ overflow_checks = FALSE
        /\ view = DefaultView
        /\ typing \in UserInputs
        /\ evt_chan = <<>>
        /\ incoming = <<>>
        /\ outgoing = <<<<>>, <<>>>>
        /\ worker = Worker("recv", <<>>, "none")
        /\ subscribers = <<Thread("evt"), Thread("msg")>>
        /\ stylization_points = <<>>

\* The frontend sends the user's next event to the renderer
FrontendEvent ==
    /\ typing # <<>>
    /\ evt_chan' = Append(evt_chan, Head(typing))
    /\ typing' = Tail(typing)
    /\ UNCHANGED <<doc_map, prev, next, active_modes, curr_combo, curr_cmd, pending, pre, last,
                   nsteps, overflow_checks, view, incoming, outgoing, worker, subscribers,
                   stylization_points>>

\* EditorServer::run: a request is received and applied to the editor
WorkerRecv ==
    /\ worker.pc = "recv"
    /\ incoming # <<>>
    /\ incoming' = Tail(incoming)
    /\ last' = [last EXCEPT !.op = "recv", !.handled = Append(@, Head(incoming))]
    /\ pre' = [st |-> Snapshot]
    /\ LET req == Head(incoming) IN
       IF req.r = "UIEvent" THEN
           \E ord \in IterOrders(doc_map), fs_ok \in WriteOutcomes(active_modes, req.evt),
              best \in BestMatches(active_modes, req.evt) :
           \E env \in {[ord |-> ord, checks |-> overflow_checks, fs_ok |-> fs_ok, best |-> best]} :
           \E r \in {update(receive_key(Snapshot, req.evt), env)} :
               /\ doc_map' = r.st.doc_map
               /\ prev' = r.st.prev
               /\ next' = r.st.next
               /\ active_modes' = r.st.active_modes
               /\ curr_combo' = r.st.curr_combo
               /\ curr_cmd' = r.st.curr_cmd
               /\ view' = view
               /\ worker' =
                    IF r.panicked THEN Worker("panicked", <<>>, "none")
                    ELSE IF r.err # "none"
                         THEN Worker("broadcast", <<ErrorThrown(r.err)>>, "update_view")
                    ELSE LET Handled_(h) ==
                                 Worker("broadcast", h.msgs,
                                        IF h.continue THEN "update_view" ELSE "break")
                         IN  Handled_(handle_editor_results(r.results, summarize(r.st, view)))
       ELSE
           /\ UNCHANGED <<doc_map, prev, next, active_modes, curr_combo, curr_cmd>>
           /\ IF req.r = "UpdateViewEvent"
                 /\ (req.b # view.max_height \/ req.a # view.max_width)
              THEN /\ view' = [view EXCEPT !.max_height = req.b, !.max_width = req.a]
                   /\ worker' = Worker("broadcast", <<ViewUpdated(summarize(Snapshot, view'))>>,
                                       "none")
              ELSE /\ view' = view
                   /\ worker' =
                        CASE req.r = "StylizeInitEvent" ->
                                 Worker("broadcast", <<StylizeInit(summarize(Snapshot, view))>>,
                                        "none")
                          [] req.r = "StylizeEvent" ->
                                 Worker("broadcast",
                                        <<Stylize(req.a, req.b, req.style,
                                                  summarize(Snapshot, view))>>, "none")
                          [] req.r = "StylizeEndEvent" ->
                                 Worker("broadcast", <<StylizeEnd(summarize(Snapshot, view))>>,
                                        "none")
                          [] OTHER -> Worker("broadcast", <<>>, "none")
    /\ UNCHANGED <<pending, nsteps, overflow_checks, typing, evt_chan, outgoing, subscribers,
                   stylization_points>>

\* EditorServer::broadcast of the next message of the request
WorkerBroadcast ==
    /\ worker.pc = "broadcast"
    /\ worker.outbox # <<>>
    /\ outgoing' = broadcast(outgoing, Head(worker.outbox))
    /\ worker' = [worker EXCEPT !.outbox = Tail(@)]
    /\ last' = [last EXCEPT !.op = "broadcast", !.log = Append(@, Head(worker.outbox))]
    /\ UNCHANGED <<doc_map, prev, next, active_modes, curr_combo, curr_cmd, pending, pre, nsteps,
                   overflow_checks, view, typing, evt_chan, incoming, subscribers,
                   stylization_points>>

\* EditorServer::run: the end of the iteration, after the last broadcast
WorkerLoop ==
    /\ worker.pc = "broadcast"
    /\ worker.outbox = <<>>
    /\ worker' = Worker(IF worker.after = "break" THEN "stopped" ELSE "recv", <<>>, "none")
    /\ view' = IF worker.after = "update_view" THEN update_view(view, doc_map) ELSE view
    /\ last' = [last EXCEPT !.op = "loop"]
    /\ UNCHANGED <<doc_map, prev, next, active_modes, curr_combo, curr_cmd, pending, pre, nsteps,
                   overflow_checks, typing, evt_chan, incoming, outgoing, subscribers,
                   stylization_points>>

\* EditorConnection::send_req by the thread of connection c: the unwrap
\* panics once the worker has dropped the receiver
SendReq(c, req, pc_after) ==
    IF WorkerGone
    THEN /\ subscribers' = [subscribers EXCEPT ![c].pc = "panicked"]
         /\ UNCHANGED <<incoming, last>>
    ELSE /\ incoming' = Append(incoming, req)
         /\ last' = [last EXCEPT !.op = "send_req", !.sent = Append(@, req)]
         /\ subscribers' = [subscribers EXCEPT ![c].pc = pc_after]

\* RendererServer::run, first half of the loop: an event of the frontend,
\* if there is one, is forwarded to the editor
RendererPollEvent ==
    /\ subscribers[Renderer].pc = "evt"
    /\ IF evt_chan = <<>>
       THEN /\ subscribers' = [subscribers EXCEPT ![Renderer].pc = "msg"]
            /\ UNCHANGED <<evt_chan, incoming, last>>
       ELSE /\ evt_chan' = Tail(evt_chan)
            /\ SendReq(Renderer,
                       IF Head(evt_chan).e = "KeyEvent" THEN UIEvent(Head(evt_chan).evt)
                       ELSE UpdateViewEvent(Head(evt_chan).a, Head(evt_chan).b),
                       "msg")
    /\ UNCHANGED <<doc_map, prev, next, active_modes, curr_combo, curr_cmd, pending, pre, nsteps,
                   overflow_checks, view, typing, outgoing, worker, stylization_points>>

\* RendererServer::run, second half of the loop: try_receive_msg and the
\* match on the message
RendererPollMsg ==
    /\ subscribers[Renderer].pc = "msg"
    /\ IF outgoing[Renderer] = <<>>
       THEN /\ subscribers' = [subscribers EXCEPT ![Renderer].pc = "evt"]
            /\ UNCHANGED <<outgoing, stylization_points>>
       ELSE LET editor_msg == Head(outgoing[Renderer]) IN
            /\ outgoing' = [outgoing EXCEPT ![Renderer] = Tail(@)]
            /\ subscribers' =
                 [subscribers EXCEPT
                     ![Renderer].pc = IF editor_msg.m = "QuitRequested" THEN "quit" ELSE "evt",
                     ![Renderer].got = Append(@, editor_msg)]
            /\ stylization_points' =
                 CASE editor_msg.m = "StylizeInit" ->
                          layer_region_style(<<>>, 0, Len(editor_msg.summary.curr_doc.buf),
                                             StyleAttrs(DefaultStyle))
                   [] editor_msg.m = "Stylize" ->
                          layer_region_style(stylization_points, editor_msg.a, editor_msg.b,
                                             StyleAttrs(editor_msg.style))
                   [] OTHER -> stylization_points
    /\ UNCHANGED <<doc_map, prev, next, active_modes, curr_combo, curr_cmd, pending, pre, last,
                   nsteps, overflow_checks, view, typing, evt_chan, incoming, worker>>

\* HighlightServer::run: try_receive_msg and the match on the message.  The
\* arm that highlights is the one for the message carrying the new state;
\* it is left at once when no syntax is found for the document.
HighlighterPollMsg ==
    /\ subscribers[Highlighter].pc = "msg"
    /\ outgoing[Highlighter] # <<>>
    /\ outgoing' = [outgoing EXCEPT ![Highlighter] = Tail(@)]
    /\ LET editor_msg == Head(outgoing[Highlighter]) IN
       \E tokens \in IF editor_msg.m = "EditorResult"
                        /\ subscribers[Highlighter].rounds < MaxHighlights
                     THEN {0, Len(editor_msg.summary.curr_doc.buf)} ELSE {0} :
           subscribers' =
               [subscribers EXCEPT
                   ![Highlighter].pc = IF editor_msg.m = "QuitRequested" THEN "quit"
                                       ELSE IF tokens > 0 THEN "send" ELSE "msg",
                   ![Highlighter].todo = tokens,
                   ![Highlighter].rounds = @ + (IF tokens > 0 THEN 1 ELSE 0),
                   ![Highlighter].got = Append(@, editor_msg)]
    /\ UNCHANGED <<doc_map, prev, next, active_modes, curr_combo, curr_cmd, pending, pre, last,
                   nsteps, overflow_checks, view, typing, evt_chan, incoming, worker,
                   stylization_points>>

\* HighlightServer::run: the StylizeEvent of the next token is sent
HighlighterSend(style) ==
    /\ subscribers[Highlighter].pc = "send"
    /\ LET n == Len(CurrDoc(doc_map).buf) - subscribers[Highlighter].todo IN
       SendReq(Highlighter, StylizeEvent(n, n + 1, style),
               IF subscribers[Highlighter].todo = 1 THEN "msg" ELSE "send")
    /\ UNCHANGED <<doc_map, prev, next, active_modes, curr_combo, curr_cmd, pending, pre, nsteps,
                   overflow_checks, view, typing, evt_chan, outgoing, worker, stylization_points>>

WorkerStep == WorkerRecv \/ WorkerBroadcast \/ WorkerLoop

RendererStep == RendererPollEvent \/ RendererPollMsg

HighlighterStep == HighlighterPollMsg \/ (\E style \in TokenStyles : HighlighterSend(style))

ServerNext == FrontendEvent \/ WorkerStep \/ RendererStep \/ HighlighterStep

ServerSpec == ServerInit /\ [][ServerNext]_vars

\* The threads keep running: the worker does not stop in the middle of its
\* broadcasts, and the renderer and the highlighter go round their loops
\* again and again.  Nothing is assumed about how soon the worker takes
\* the next request.
ServerFairSpec ==
    ServerSpec /\ WF_vars(WorkerBroadcast) /\ WF_vars(RendererStep) /\ WF_vars(HighlighterStep)

-----------------------------------------------------------------------------
(* MoveSpec: cursor movements applied one after the other to the head of   *)
(* the only selection of a document.                                       *)

MaxMoves == 2

\* The rope "abcd\n\txy"
TabbedBuf == <<"a", "b", "c", "d", "nl", "tab", "x", "y">>

MoveBufs ==
    {<<>>, <<"a", "b", "c">>, <<"a", "cm", "b">>, <<"a", "b", "cm">>, <<"ee", "cm", "cm">>,
     <<"a", "nl", "b">>, TabbedBuf}

MoveInit ==
    /\ \E buf \in MoveBufs : \E head \in 0..Len(buf) :
           doc_map = DocumentMap(0, (0 :> Document(FilePath, buf, (0 :> TextSelection(head, None)),
                                                 FALSE)))
    /\ prev = <<>>
    /\ next = <<>>
    /\ active_modes = <<"normal">>
    /\ curr_combo = <<>>
    /\ curr_cmd = <<>>
    /\ pending = <<>>
    /\ pre = [op |-> "init", from |-> 0, res |-> None, target |-> ""]
    /\ last = [op |-> "init", from |-> 0, res |-> None, target |-> ""]
    /\ nsteps = 0
    /\ overflow_checks = FALSE
    /\ NoServers

\* The movement named op is called on the head (with the target character
\* for the occurrence movements); the head moves to the index it returns, if
\* it returns one (move_all_heads: unwrap_or(sel.0))
Move(op, target, res) ==
    /\ nsteps < MaxMoves
    /\ nsteps' = nsteps + 1
    /\ pre' = last
    /\ last' = [op |-> op, from |-> CurrDoc(doc_map).selections[0].head, res |-> res,
                target |-> target]
    /\ doc_map' = IF res = None THEN doc_map
                  ELSE [doc_map EXCEPT !.docs[0].selections[0].head = res]
    /\ UNCHANGED <<server_vars, prev, next, active_modes, curr_combo, curr_cmd, pending,
                   overflow_checks>>

RightGrapheme ==
    Move("right_grapheme", "",
         right_grapheme(CurrDoc(doc_map).selections[0].head, CurrDoc(doc_map).buf))

LeftGrapheme ==
    Move("left_grapheme", "",
         left_grapheme(CurrDoc(doc_map).selections[0].head, CurrDoc(doc_map).buf))

LowerGraphemeOrEnd ==
    Move("lower_grapheme_or_end", "",
         lower_grapheme_or_end(CurrDoc(doc_map).selections[0].head, CurrDoc(doc_map).buf))

MoveTargets == {"a", "b", "z"}

RightOccurrence ==
    \E target \in MoveTargets :
        Move("right_occurrence", target,
             right_occurrence(CurrDoc(doc_map).selections[0].head, target, CurrDoc(doc_map).buf))

LeftOccurrence ==
    \E target \in MoveTargets :
        Move("left_occurrence", target,
             left_occurrence(CurrDoc(doc_map).selections[0].head, target, CurrDoc(doc_map).buf))

MoveNext ==
    RightGrapheme \/ LeftGrapheme \/ LowerGraphemeOrEnd \/ RightOccurrence \/ LeftOccurrence

MoveSpec == MoveInit /\ [][MoveNext]_vars

-----------------------------------------------------------------------------
(* IterSpec: a GraphemeIterator is created at a character index of a       *)
(* buffer, forward or reversed, and next() is called on it repeatedly.     *)

MaxIterCalls == 14

MaxRevs == 2

NoPred == [kind |-> "none", target |-> ""]

IterPreds == {EndsWith("a"), EndsWith("b"), EndsWith("z"), HasBlankEdge, HasNonBlank}

IterBufs ==
    {<<>>, <<"a", "b", "c">>, <<"a", "cm", "b">>, <<"a", "b", "cm">>, <<"ee", "cm", "cm">>,
     <<"a", "nl", "b">>, <<"a", "a", "b">>}

\* last.yields are the items the calls returned since the iterator was
\* created or last reversed, last.done tells that the latest of them
\* returned None, last.revs counts the reversals and last.after_none tells
\* that next() was the only other method called and that each reversal was
\* made right after a call returned None; last.stop, last.pred, last.idx
\* and last.at_eof describe a call of stop_at or stop_before and the
\* iterator it returned, pre is the iterator it was called on
IterInit ==
    /\ \E buf \in IterBufs : \E init_char_idx \in 0..Len(buf) : \E reverse \in BOOLEAN :
           /\ doc_map = DocumentMap(0, (0 :> Document(FilePath, buf, (0 :> TextSelection(0, None)),
                                                    FALSE)))
           /\ pending = IF reverse THEN rev(graphemes(buf, init_char_idx))
                        ELSE graphemes(buf, init_char_idx)
           /\ last = [after_none |-> TRUE, at_eof |-> FALSE, done |-> FALSE, idx |-> 0,
                      init_char_idx |-> init_char_idx, op |-> "new", pred |-> NoPred,
                      reverse |-> reverse, revs |-> 0, stop |-> "none", yields |-> <<>>]
    /\ prev = <<>>
    /\ next = <<>>
    /\ active_modes = <<"normal">>
    /\ curr_combo = <<>>
    /\ curr_cmd = <<>>
    /\ pre = <<>>
    /\ nsteps = 0
    /\ overflow_checks = FALSE
    /\ NoServers

\* One call of next() on the iterator
IterNextCall ==
    /\ nsteps < MaxIterCalls
    /\ nsteps' = nsteps + 1
    /\ \E r \in {iter_next(pending, CurrDoc(doc_map).buf)} :
           /\ pending' = r.it
           /\ last' = [last EXCEPT !.op = "next",
                                   !.done = ~r.some,
                                   !.yields = IF r.some THEN Append(@, r.g) ELSE @]
    /\ UNCHANGED <<server_vars, doc_map, prev, next, active_modes, curr_combo, curr_cmd, pre,
                   overflow_checks>>

\* rev() on the iterator
IterRev ==
    /\ last.revs < MaxRevs
    /\ pending' = rev(pending)
    /\ last' = [last EXCEPT !.op = "rev",
                            !.after_none = @ /\ last.done /\ last.stop = "none",
                            !.done = FALSE,
                            !.revs = @ + 1,
                            !.yields = <<>>]
    /\ UNCHANGED <<server_vars, doc_map, prev, next, active_modes, curr_combo, curr_cmd, pre,
                   nsteps, overflow_checks>>

\* stop_at(pred) or stop_before(pred) on the iterator, once
Stop(op, pred, it) ==
    /\ last.stop = "none"
    /\ pre' = pending
    /\ pending' = it
    /\ last' = [last EXCEPT !.op = op,
                            !.stop = op,
                            !.pred = pred,
                            !.idx = curr_idx(it),
                            !.at_eof = at_eof(it, CurrDoc(doc_map).buf),
                            !.after_none = FALSE,
                            !.done = FALSE,
                            !.yields = <<>>]
    /\ UNCHANGED <<server_vars, doc_map, prev, next, active_modes, curr_combo, curr_cmd,
                   nsteps, overflow_checks>>

StopAt == \E pred \in IterPreds : Stop("stop_at", pred, stop_at(pending, CurrDoc(doc_map).buf, pred))

StopBefore ==
    \E pred \in IterPreds : Stop("stop_before", pred, stop_before(pending, CurrDoc(doc_map).buf, pred))

IterNext == IterNextCall \/ IterRev \/ StopAt \/ StopBefore

IterSpec == IterInit /\ [][IterNext]_vars

\* Equality of two document maps in what a transaction may touch: the
\* current document id, the set of document ids, and every document's
\* buffer and selection map.
SameDocMap(dm1, dm2) ==
    /\ dm1.cur = dm2.cur
    /\ DOMAIN dm1.docs = DOMAIN dm2.docs
    /\ \A id \in DOMAIN dm1.docs :
          /\ dm1.docs[id].buf = dm2.docs[id].buf
          /\ dm1.docs[id].selections = dm2.docs[id].selections

\* C1: whenever apply_tx returned Some(inv), applying inv to the resulting
\* document map succeeds and yields the document map present before the call.
C1_InverseRestores ==
    (last.op = "apply_tx" /\ last.ok) =>
        LET r == apply_tx(last.inv, doc_map) IN
        r.ok /\ SameDocMap(r.dm, pre.doc_map)

\* C2: whenever apply_tx returned None, the document map equals the one
\* present before the call.
C2_FailureRestores ==
    (last.op = "apply_tx" /\ ~last.ok) => SameDocMap(doc_map, pre.doc_map)

\* C3: after successfully applied forward transactions, undos and redos that
\* leave prev non-empty, an undo followed by a redo gives back the document
\* map and leaves both stacks with the lengths they had.
C3_UndoThenRedoRestores ==
    (last.op \in {"init", "key"} /\ last.clean /\ prev # <<>>) =>
        LET u == undo(Snapshot)
            r == redo(u.st)
        IN  /\ SameDocMap(r.st.doc_map, doc_map)
            /\ Len(r.st.prev) = Len(prev)
            /\ Len(r.st.next) = Len(next)

IsRedoAction(action) == Len(action) = 1 /\ action[1].c = "RedoCurrDocument"

\* C4: when the last executed command was a successfully applied non-empty
\* forward transaction the redo stack is empty, and a Redo command that
\* comes next applies nothing, leaves the document map as it is and
\* surfaces RedoError.
C4_ForwardEditClearsRedo ==
    /\ (last.op = "key" /\ last.fwd) => next = <<>>
    /\ (last.op = "key" /\ pre.fwd /\ IsRedoAction(last.action)) =>
            /\ last.err = "RedoError"
            /\ last.results = <<>>
            /\ SameDocMap(doc_map, pre.st.doc_map)
            /\ prev = pre.st.prev
            /\ next = <<>>

\* C4 witness: a Redo key right after a forward edit that was made while
\* the redo stack held a transaction; the Redo surfaced RedoError.
C4_Witness ==
    /\ last.op = "key"
    /\ pre.fwd
    /\ pre.redo_len > 0
    /\ IsRedoAction(last.action)
    /\ last.err = "RedoError"

\* C8: every head and every present tail of the current document lies in
\* 0..=len_chars of its buffer, in every state the key-driven editor reaches.
C8_SelectionsInBounds ==
    (last.op \in {"init", "key"} /\ HasCurrDoc(doc_map)) =>
        LET doc == CurrDoc(doc_map) IN
        \A id \in DOMAIN doc.selections :
            /\ doc.selections[id].head \in 0..Len(doc.buf)
            /\ doc.selections[id].tail # None => doc.selections[id].tail \in 0..Len(doc.buf)

\* C9: whenever update returns an error the pending key combo is empty
\* afterwards.
C9_ErrorResetsCombo ==
    (last.op = "key" /\ last.err # "none") => curr_combo = <<>>

\* The commands cmds executed one after the other from st
RECURSIVE RunEach(_, _, _)
RunEach(cmds, st, env) ==
    IF cmds = <<>> THEN st ELSE RunEach(Tail(cmds), RunCmd(Head(cmds), st, env).st, env)

\* The action the current mode produced for the last key event, and the
\* state it was executed from
LastHandled ==
    LET st0 == receive_key(pre.st, last.evt)
        h == handle_combo(Head(st0.active_modes), st0.curr_combo, st0.curr_cmd, last.env.best)
    IN  [action |-> h.action, st |-> [st0 EXCEPT !.curr_cmd = h.curr_cmd]]

\* C10: when the i-th command of an action fails, the editor is left in the
\* state that the first i commands alone produce (no later command has
\* left a trace in the document map, the history or the mode stack) and
\* update returns the error of that i-th command.
C10_FirstErrorAborts ==
    (last.op = "key" /\ last.err \notin {"none", "NoMode"}) =>
        LET h == LastHandled
            k == Len(last.results)
        IN  /\ k < Len(h.action)
            /\ LET before == RunEach(SubSeq(h.action, 1, k), h.st, last.env)
                    failing == RunCmd(h.action[k + 1], before, last.env)
                IN  /\ failing.err = last.err
                    /\ Snapshot = failing.st

\* C10 witness: a command failed and a command after it, had it been
\* executed, would have succeeded and changed the editor.
C10_Witness ==
    /\ last.op = "key"
    /\ last.err \notin {"none", "NoMode"}
    /\ \E j \in (Len(last.results) + 2)..Len(last.action) :
           LET later == RunCmd(last.action[j], Snapshot, last.env)
           IN  later.err = "none" /\ later.st # Snapshot

AllCursors(doc) == \A id \in DOMAIN doc.selections : doc.selections[id].tail = None

Heads(doc) == {doc.selections[id].head : id \in DOMAIN doc.selections}

\* The number of selections of doc whose head satisfies Test
HeadCount(doc, Test(_)) == Cardinality({id \in DOMAIN doc.selections : Test(doc.selections[id].head)})

\* buf with one copy of str inserted at position p for every head equal to p
RECURSIVE InsertedAtHeads(_, _, _, _)
InsertedAtHeads(buf, doc, str, p) ==
    IF p > Len(buf) THEN <<>>
    ELSE LET copies == HeadCount(doc, LAMBDA h : h = p)
             here == Flatten([i \in 1..copies |-> str])
         IN  here \o (IF p < Len(buf) THEN <<buf[p + 1]>> ELSE <<>>)
                  \o InsertedAtHeads(buf, doc, str, p + 1)

\* C5: insert_key on k >= 1 cursors applies successfully, yields the buffer
\* with one copy of the text at every original head, leaves every head
\* immediately right of a copy inserted at its position, and one undo
\* restores buffer and heads.
C5_InsertKeyAtEveryHead ==
    LET old == CurrDoc(pre.st.doc_map)
        new == CurrDoc(doc_map)
        str == extract_text(last.trigger)
    IN  /\ (last.op = "insert_key" /\ AllCursors(old)) =>
            /\ last.some
            /\ new.buf = InsertedAtHeads(old.buf, old, str, 0)
            /\ \A id \in DOMAIN old.selections :
                 LET h == old.selections[id].head
                     before == HeadCount(old, LAMBDA x : x < h)
                     same == HeadCount(old, LAMBDA x : x = h)
                 IN  /\ id \in DOMAIN new.selections
                     /\ new.selections[id].tail = None
                     /\ \E j \in 1..same : new.selections[id].head = h + (before + j) * Len(str)
        /\ (last.op = "undo" /\ last.of = "insert_key" /\ AllCursors(old)) =>
            /\ new.buf = old.buf
            /\ new.selections = old.selections

\* The indices of buf that remain when the indices in gone are removed
Remaining(buf, gone) == SelectSeq([i \in 1..Len(buf) |-> i - 1], LAMBDA i : i \notin gone)

\* buf without the characters at the (0-based) indices in gone
Without(buf, gone) == LET keep == Remaining(buf, gone) IN [i \in 1..Len(keep) |-> buf[keep[i] + 1]]

\* The index that idx has once the indices in gone are removed
Shifted(idx, gone) == idx - Cardinality({i \in gone : i < idx})

\* idx is a grapheme cluster boundary of buf
IsBoundary(buf, idx) == idx = 0 \/ idx = Len(buf) \/ BreakBefore(buf, idx + 1)

\* The range [from, to) of the grapheme cluster left (right) of a boundary
LeftCluster(buf, h) == IF h = 0 THEN {} ELSE (h - LastGraphemeLen(SubSeq(buf, 1, h)))..(h - 1)
RightCluster(buf, h) == IF h = Len(buf) THEN {} ELSE h..(h + FirstGraphemeLen(SubSeq(buf, h + 1, Len(buf))) - 1)

\* What delete_left (delete_right) is to achieve on doc, Cluster telling
\* which indices go for a head
DeletesOneClusterPerHead(old, new, Cluster(_, _), left) ==
    LET gone == UNION {Cluster(old.buf, h) : h \in Heads(old)} IN
    /\ new.buf = Without(old.buf, gone)
    /\ \A id \in DOMAIN old.selections :
         LET h == old.selections[id].head
             mine == Cluster(old.buf, h)
             at == IF mine = {} \/ ~left THEN h ELSE SetMin(mine)
         IN  /\ id \in DOMAIN new.selections
             /\ new.selections[id].head = Shifted(at, gone)

\* C6: on cursors with pairwise distinct heads, delete_left removes exactly
\* the grapheme left of each head (nothing at index 0) and leaves each head
\* at the left boundary of its own deletion; delete_right does the same to
\* the right of each head.
C6_DeleteOneGraphemePerHead ==
    LET old == CurrDoc(pre.st.doc_map)
        new == CurrDoc(doc_map)
        applies == /\ AllCursors(old)
                   /\ Cardinality(Heads(old)) = Cardinality(DOMAIN old.selections)
                   /\ \A h \in Heads(old) : IsBoundary(old.buf, h)
    IN  /\ (last.op = "delete_left" /\ applies) =>
                last.some /\ DeletesOneClusterPerHead(old, new, LeftCluster, TRUE)
        /\ (last.op = "delete_right" /\ applies) =>
                last.some /\ DeletesOneClusterPerHead(old, new, RightCluster, FALSE)

\* C7: delete_sels removes exactly the union of the merged selection
\* intervals, and afterwards every selection has head = tail = the
\* post-deletion index of the left boundary of the merged interval that
\* contained it.
C7_DeleteSelsRemovesMergedUnion ==
    LET old == CurrDoc(pre.st.doc_map)
        new == CurrDoc(doc_map)
        ids == SelectSeq(last.ord, LAMBDA id : id \in DOMAIN old.selections)
        merged == collect_merged([i \in 1..Len(ids) |-> old.selections[ids[i]]], old.buf)
        gone == UNION {merged[i][1]..(merged[i][2] - 1) : i \in 1..Len(merged)}
    IN  last.op = "delete_sels" =>
            /\ last.some
            /\ new.buf = Without(old.buf, gone)
            /\ \A id \in DOMAIN old.selections :
                 LET m == SelMin(old.selections[id])
                     holder == {i \in 1..Len(merged) : merged[i][1] <= m /\ m <= merged[i][2]}
                 IN  /\ id \in DOMAIN new.selections
                     /\ holder # {}
                     /\ \E i \in holder :
                          /\ new.selections[id].head = Shifted(merged[i][1], gone)
                          /\ new.selections[id].tail = Shifted(merged[i][1], gone)

-----------------------------------------------------------------------------
(* Claims on the document map and on single primitives, under TxSpec *)

\* C11: after a successfully applied transaction, the current document id
\* is a key of the document map and the map holds at least one document.
C11_CurrentDocPresent ==
    (last.op = "apply_tx" /\ last.ok) =>
        (contains_key(doc_map, doc_map.cur) /\ DOMAIN doc_map.docs # {})

-----------------------------------------------------------------------------
(* Claims on the editor fed with key events, under EditorSpec *)

\* C12: in every state reached by key events, the editor has a current
\* document whose selection map is non-empty and contains selection id 0.
C12_PrimarySelectionKept ==
    /\ HasCurrDoc(doc_map)
    /\ DOMAIN CurrDoc(doc_map).selections # {}
    /\ 0 \in DOMAIN CurrDoc(doc_map).selections

\* C12, its case: Esc over several cursors has deleted every selection but
\* selection 0.
C12_Witness ==
    /\ last.op = "key"
    /\ last.evt = Esc
    /\ last.err = "none"
    /\ Cardinality(DOMAIN CurrDoc(pre.st.doc_map).selections) > 1
    /\ DOMAIN CurrDoc(doc_map).selections = {0}

\* C14: in every state reached by key events the active mode stack is
\* non-empty, its bottom element is the base mode, its front element is a
\* registered mode, and update has not returned NoMode.
C14_ModeStackSound ==
    /\ active_modes # <<>>
    /\ active_modes[Len(active_modes)] = "normal"
    /\ Head(active_modes) \in registered_modes
    /\ last.err # "NoMode"

\* C14, its case: a key pressed in a mode pushed over the base mode has
\* popped that mode, and the base mode is current again.
C14_Witness ==
    /\ last.op = "key"
    /\ Len(pre.st.active_modes) = 2
    /\ Head(pre.st.active_modes) # "normal"
    /\ active_modes = <<"normal">>

\* The commands SelectionMode drops from NormalMode's action
DroppedBySelection(cmd) ==
    \/ cmd.c = "Transaction" /\ cmd.arg = "collapse_sels"
    \/ cmd.c = "PushMode" /\ cmd.arg \in {"insert", "selection"}

\* An action without its dropped commands, the others in their order
RECURSIVE KeptBySelection(_)
KeptBySelection(action) ==
    IF action = <<>> THEN <<>>
    ELSE IF DroppedBySelection(Head(action)) THEN KeptBySelection(Tail(action))
    ELSE <<Head(action)>> \o KeptBySelection(Tail(action))

\* Combos to hand to a current SelectionMode beyond the ones typed: one for
\* every kind of action NormalMode answers with, and the Esc combos
SelectionCombos ==
    {<<Char(c, NONE)>> : c \in {"%", "a", "o", "O", "c", "d", "i", "v", "w", "g", ":", "u", "q"}}
        \cup {<<Esc>>, <<Key("Esc", CTRL)>>, <<Char("f", NONE), Char("a", NONE)>>,
              <<Char("q", NONE), Esc>>}

\* What C15 states of the action for the combo kc
SelectionAction(kc) ==
    IF Len(kc) = 1 /\ kc[1] = Esc
    THEN <<Transaction("collapse_sels"), PopMode>>
    ELSE KeptBySelection(handle(NormalTriggers, kc))

\* C15: the action SelectionMode returns for a combo is [Transaction(
\* COLLAPSE_SELS), PopMode] for a lone unmodified Esc and otherwise
\* NormalMode's action for the combo with every Transaction(COLLAPSE_SELS),
\* PushMode(insert) and PushMode(selection) removed; and no mode stack holds
\* InsertMode or a second SelectionMode above a SelectionMode.
C15_SelectionModeFilters ==
    /\ (/\ last.op = "key"
        /\ Head(pre.st.active_modes) = "selection"
        /\ ~(Len(pre.st.curr_combo) > 0 /\ last.evt = Esc))
       => last.action = SelectionAction(Append(pre.st.curr_combo, last.evt))
    /\ Head(active_modes) = "selection"
       => \A kc \in SelectionCombos :
              handle_combo("selection", kc, curr_cmd, QuitName).action = SelectionAction(kc)
    /\ \A i, j \in 1..Len(active_modes) :
          (i < j /\ active_modes[j] = "selection") =>
              active_modes[i] \notin {"insert", "selection"}

\* C15, its case: SelectionMode is current and the key i, for which
\* NormalMode answers [Transaction(COLLAPSE_SELS), PushMode(insert)], has
\* left the mode stack as it was.
C15_Witness ==
    /\ last.op = "key"
    /\ last.evt = Char("i", NONE)
    /\ pre.st.active_modes = <<"selection", "normal">>
    /\ pre.st.curr_combo = <<>>
    /\ handle(NormalTriggers, <<last.evt>>) = <<Transaction("collapse_sels"), PushMode("insert")>>
    /\ last.action = <<>>
    /\ active_modes = <<"selection", "normal">>

-----------------------------------------------------------------------------
(* Claims on single commands and on modify_with_tx, under CmdSpec *)

\* C13: PushMode of an unregistered name fails with InvalidMode and PopMode
\* on a stack of one mode fails with CannotPopMode, the mode stack unchanged
\* in both cases; PushMode of a registered name puts it at the front of the
\* stack, and PopMode on a stack of two or more modes removes the front, so
\* that the mode current before the matching push is current again.
C13_ModeCommands ==
    last.op = "cmd" =>
        /\ (last.cmd.c = "PushMode" /\ last.cmd.arg \notin registered_modes)
           => (last.err = "InvalidMode" /\ active_modes = pre.st.active_modes)
        /\ (last.cmd.c = "PopMode" /\ Len(pre.st.active_modes) = 1)
           => (last.err = "CannotPopMode" /\ active_modes = pre.st.active_modes)
        /\ (last.cmd.c = "PushMode" /\ last.cmd.arg \in registered_modes)
           => /\ last.err = "none"
              /\ Head(active_modes) = last.cmd.arg
              /\ Tail(active_modes) = pre.st.active_modes
        /\ (last.cmd.c = "PopMode" /\ Len(pre.st.active_modes) >= 2)
           => /\ last.err = "none"
              /\ active_modes = Tail(pre.st.active_modes)
              /\ Head(active_modes) = pre.st.active_modes[2]

\* C13, its case: PushMode of an unregistered name was refused on a stack
\* of two modes.
C13_Witness ==
    /\ last.op = "cmd"
    /\ last.cmd.c = "PushMode"
    /\ last.err = "InvalidMode"
    /\ Len(active_modes) = 2

\* C18: modify_with_tx on the empty transaction returns true and leaves
\* the document map, the prev stack and the next stack as they were.
C18_EmptyTxLeavesHistory ==
    (last.op = "modify_with_tx" /\ last.tx = <<>>) =>
        /\ last.ok
        /\ doc_map = pre.st.doc_map
        /\ prev = pre.st.prev
        /\ next = pre.st.next

\* C18, its case: the empty transaction was handed to modify_with_tx while
\* both history stacks held a transaction.
C18_Witness ==
    /\ last.op = "modify_with_tx"
    /\ last.tx = <<>>
    /\ pre.st.prev # <<>>
    /\ pre.st.next # <<>>

\* C19: an Undo command on an empty prev stack fails with UndoError and a
\* Redo command on an empty next stack fails with RedoError; the document
\* map and both history stacks are as they were.
C19_EmptyStackErrors ==
    last.op = "cmd" =>
        /\ (last.cmd.c = "UndoCurrDocument" /\ pre.st.prev = <<>>)
           => /\ last.err = "UndoError"
              /\ doc_map = pre.st.doc_map
              /\ prev = pre.st.prev
              /\ next = pre.st.next
        /\ (last.cmd.c = "RedoCurrDocument" /\ pre.st.next = <<>>)
           => /\ last.err = "RedoError"
              /\ doc_map = pre.st.doc_map
              /\ prev = pre.st.prev
              /\ next = pre.st.next

\* C19, its case: Undo was refused on an empty prev stack while the next
\* stack held a transaction.
C19_Witness ==
    /\ last.op = "cmd"
    /\ last.cmd.c = "UndoCurrDocument"
    /\ last.err = "UndoError"
    /\ pre.st.prev = <<>>
    /\ next # <<>>

-----------------------------------------------------------------------------
(* Claims on single primitives: TxSpec, transactions of one primitive *)

\* The primitive pm names a document or a selection that dm does not hold
NamesMissingDoc(pm, dm) == ~contains_key(dm, pm.doc)
NamesMissingSel(pm, dm) ==
    NamesMissingDoc(pm, dm) \/ pm.sel \notin DOMAIN dm.docs[pm.doc].selections

\* The primitives that C16 lists as returning None, but for CreateSel
ListedAsFailing(pm, dm) ==
    \/ /\ pm.k = "InsText"
       /\ ~NamesMissingDoc(pm, dm)
       /\ pm.a > Len(dm.docs[pm.doc].buf)
    \/ /\ pm.k = "DelRange"
       /\ ~NamesMissingDoc(pm, dm)
       /\ (pm.a > pm.b \/ pm.b > Len(dm.docs[pm.doc].buf))
    \/ pm.k \in {"SwitchDoc", "PopDoc"} /\ NamesMissingDoc(pm, dm)
    \/ pm.k \in {"SetHead", "SetTail", "DeleteSel"} /\ NamesMissingSel(pm, dm)

\* A one-primitive transaction returned Some of one inverse, or None with
\* the document map as it was
SomeOrUntouched ==
    /\ last.ok => Len(last.inv) = 1
    /\ ~last.ok => doc_map = pre.doc_map

\* C16 as stated: a single primitive returns Some(inverse) or returns None
\* having changed nothing; the listed primitives return None, among them
\* every CreateSel naming a missing document or a missing selection.
C16_NoneWithoutMutation ==
    (last.op = "apply_tx" /\ Len(last.tx) = 1) =>
        /\ SomeOrUntouched
        /\ ListedAsFailing(last.tx[1], pre.doc_map) => ~last.ok
        /\ (last.tx[1].k = "CreateSel" /\ NamesMissingSel(last.tx[1], pre.doc_map)) => ~last.ok

\* C16 amended: as C16, but CreateSel returns None only when it names a
\* missing document; naming a selection id the document does not hold, it
\* inserts the selection and returns Some(DeleteSel).
C16_NoneWithoutMutationAmended ==
    (last.op = "apply_tx" /\ Len(last.tx) = 1) =>
        /\ SomeOrUntouched
        /\ ListedAsFailing(last.tx[1], pre.doc_map) => ~last.ok
        /\ last.tx[1].k = "CreateSel" =>
             IF NamesMissingDoc(last.tx[1], pre.doc_map) THEN ~last.ok
             ELSE /\ last.ok
                  /\ last.inv = <<DeleteSel(last.tx[1].doc, last.tx[1].sel)>>
                  /\ doc_map.docs[last.tx[1].doc].selections[last.tx[1].sel] = last.tx[1].ts

\* C16, its case: a DelRange reaching past the end of a non-empty buffer
\* returned None.
C16_Witness ==
    /\ last.op = "apply_tx"
    /\ Len(last.tx) = 1
    /\ last.tx[1].k = "DelRange"
    /\ ~last.ok
    /\ ~NamesMissingDoc(last.tx[1], pre.doc_map)
    /\ pre.doc_map.docs[last.tx[1].doc].buf # <<>>
    /\ last.tx[1].b > Len(pre.doc_map.docs[last.tx[1].doc].buf)

\* C17: the inverse of a successful InsText(i, s) is DelRange(i, i + n) with
\* n the number of characters of s, and applying it gives back the document
\* map present before the insertion.
C17_InsTextInverseCountsChars ==
    (last.op = "apply_tx" /\ Len(last.tx) = 1 /\ last.tx[1].k = "InsText" /\ last.ok) =>
        /\ last.inv = <<DelRange(last.tx[1].doc, last.tx[1].a,
                                 last.tx[1].a + CharCount(last.tx[1].s))>>
        /\ LET back == apply_tx(last.inv, doc_map) IN
           back.ok /\ back.dm = pre.doc_map

-----------------------------------------------------------------------------
(* Scenario C, under GenSpec *)

\* The heads of the selections of doc, by selection id
HeadsOf(doc) == [id \in DOMAIN doc.selections |-> doc.selections[id].head]

\* delete_left on scenario C gave the buffer buf and the heads 1 and 3, and
\* an undo after it gave back "abcdef" with the heads 2 and 5
ScenarioOutcome(buf) ==
    (/\ CurrDoc(pre.st.doc_map).buf = ScenarioBuf
     /\ CurrDoc(pre.st.doc_map).selections = ScenarioSels)
    => /\ last.op = "delete_left"
          => /\ last.some
             /\ CurrDoc(doc_map).buf = buf
             /\ HeadsOf(CurrDoc(doc_map)) = (0 :> 1) @@ (1 :> 3)
       /\ (last.op = "undo" /\ last.of = "delete_left")
          => /\ last.some
             /\ CurrDoc(doc_map).buf = ScenarioBuf
             /\ HeadsOf(CurrDoc(doc_map)) = (0 :> 2) @@ (1 :> 5)

\* C20 as stated: with rope "abcdef" and cursors at 2 and 5, delete_left
\* yields rope "acdef" and heads {0: 1, 1: 3}, and a following undo restores
\* rope "abcdef" with heads {0: 2, 1: 5}.
C20_DeleteLeftScenario == ScenarioOutcome(<<"a", "c", "d", "e", "f">>)

\* C20 amended: the rope after delete_left is "acdf", one character removed
\* to the left of each of the two cursors; the heads and the undo are as
\* stated.
C20_DeleteLeftScenarioAmended == ScenarioOutcome(<<"a", "c", "d", "f">>)

\* C20, its case: delete_left was applied to scenario C and then undone.
C20_Witness ==
    /\ last.op = "undo"
    /\ last.of = "delete_left"
    /\ CurrDoc(pre.st.doc_map).buf = ScenarioBuf
    /\ CurrDoc(pre.st.doc_map).selections = ScenarioSels
    /\ next # <<>>

-----------------------------------------------------------------------------
(* Transaction::map_char_idx, under TxSpec: the pending transaction is the  *)
(* transaction a generator has built so far.                               *)

\* The text primitives of tx on the document buf_id
TextModsOn(tx, buf_id) ==
    SelectSeq(tx, LAMBDA pm : pm.k \in {"InsText", "DelRange"} /\ pm.doc = buf_id)

\* Every primitive of mods applies to buf, each in the coordinates of the
\* buffer the earlier ones have left
RECURSIVE AppliesInTurn(_, _)
AppliesInTurn(mods, buf) ==
    IF mods = <<>> THEN TRUE
    ELSE LET pm == Head(mods) IN
         IF pm.k = "InsText"
         THEN /\ pm.a <= Len(buf)
              /\ AppliesInTurn(Tail(mods),
                               Slice(buf, 0, pm.a) \o pm.s \o Slice(buf, pm.a, Len(buf)))
         ELSE /\ pm.a <= pm.b /\ pm.b <= Len(buf)
              /\ AppliesInTurn(Tail(mods), Slice(buf, 0, pm.a) \o Slice(buf, pm.b, Len(buf)))

\* Where the character that stands at idx ends up once mods are applied,
\* or None when one of them deletes it
RECURSIVE Travels(_, _)
Travels(mods, idx) ==
    IF mods = <<>> \/ idx = None THEN idx
    ELSE LET pm == Head(mods) IN
         Travels(Tail(mods),
                 IF pm.k = "InsText"
                 THEN (IF idx >= pm.a THEN idx + Len(pm.s) ELSE idx)
                 ELSE (IF idx < pm.a THEN idx
                       ELSE IF idx >= pm.b THEN idx - (pm.b - pm.a)
                       ELSE None))

\* C21: for a transaction whose text primitives on a document are each in
\* the coordinates of the buffer at the moment they are applied,
\* map_char_idx sends every index that no primitive deletes to the index
\* its character occupies after all of them; primitives on other documents
\* and selection or document-map primitives do not change the result.
C21_MapCharIdxFollowsText ==
    \A d \in DOMAIN doc_map.docs :
        AppliesInTurn(TextModsOn(pending, d), doc_map.docs[d].buf) =>
            \A i \in 0..Len(doc_map.docs[d].buf) :
                /\ map_char_idx(pending, d, i) = map_char_idx(TextModsOn(pending, d), d, i)
                /\ Travels(TextModsOn(pending, d), i) # None
                   => map_char_idx(pending, d, i) = Travels(TextModsOn(pending, d), i)

-----------------------------------------------------------------------------
(* KeyPattern::matches, under PatternSpec *)

\* The length of the longest run of digit events with the modifiers kmods
\* at the front of kc
DigitRun(kc, kmods) ==
    CHOOSE n \in 0..Len(kc) :
        /\ \A i \in 1..n : kc[i].t = "Char" /\ kc[i].mods = kmods /\ is_ascii_digit(kc[i].c)
        /\ n < Len(kc) =>
             ~(kc[n + 1].t = "Char" /\ kc[n + 1].mods = kmods /\ is_ascii_digit(kc[n + 1].c))

\* The number of events the matcher takes from the front of kc
Takes(matcher, kc) ==
    IF kc = <<>> THEN 0
    ELSE IF matcher.m = "Number" THEN DigitRun(kc, matcher.mods)
    ELSE IF \/ matcher.m = "Exact" /\ kc[1] = matcher.evt
            \/ matcher.m = "AnyChar" /\ kc[1].t = "Char" /\ kc[1].mods = matcher.mods
            \/ matcher.m = "AnyKey" /\ kc[1].t = "Key" /\ kc[1].mods = matcher.mods
            \/ matcher.m = "Digit" /\ DigitRun(<<kc[1]>>, matcher.mods) = 1
            \/ matcher.m = "Any"
         THEN 1 ELSE 0

\* The number of events the clause takes: what its first matcher that takes
\* any event takes
ClauseTakes(clause, kc) ==
    LET takers == {u \in 1..Len(clause) : Takes(clause[u], kc) > 0} IN
    IF takers = {} THEN 0 ELSE Takes(clause[SetMin(takers)], kc)

\* The clauses, in order, each take at least one event from the front of
\* what the earlier ones left, and nothing is left after the last
Accepts(pattern, kc) ==
    \E cuts \in [0..Len(pattern) -> 0..Len(kc)] :
        /\ cuts[0] = 0
        /\ cuts[Len(pattern)] = Len(kc)
        /\ \A j \in 1..Len(pattern) :
             /\ cuts[j] > cuts[j - 1]
             /\ cuts[j] - cuts[j - 1]
                  = ClauseTakes(pattern[j], SubSeq(kc, cuts[j - 1] + 1, Len(kc)))

\* C22: matches returns a boolean for every pattern and combo, and it is
\* true exactly when the clauses, processed in order without backtracking,
\* each consume at least one event from the front of what remains and no
\* event remains after the last clause.
C22_MatchesConsumesInOrder ==
    last.op = "matches" =>
        /\ last.res \in BOOLEAN
        /\ last.res = Accepts(pending, curr_combo)

\* C22, its case: Number took both digits, so that the pattern Number then
\* Exact('1') does not match the combo "11".
C22_Witness ==
    /\ last.op = "matches"
    /\ pending = << <<Number(NONE)>>, <<Exact(Char("1", NONE))>> >>
    /\ curr_combo = <<Char("1", NONE), Char("1", NONE)>>
    /\ ~last.res

-----------------------------------------------------------------------------
(* collect_merged, under GenSpec: delete_sels hands it the selections of   *)
(* the current document in their iteration order.                          *)

\* The selections delete_sels iterated over, and what collect_merged made
\* of them
IteratedSels ==
    LET old == CurrDoc(pre.st.doc_map)
        ids == SelectSeq(last.ord, LAMBDA id : id \in DOMAIN old.selections)
    IN  [i \in 1..Len(ids) |-> old.selections[ids[i]]]

MergedSels == collect_merged(IteratedSels, CurrDoc(pre.st.doc_map).buf)

\* One grapheme right of idx, or idx where there is none
OneRightOf(idx) ==
    LET rg == right_grapheme(idx, CurrDoc(pre.st.doc_map).buf) IN
    IF rg = None THEN idx ELSE rg

\* C23: the intervals collect_merged returns are half-open, sorted by start
\* and pairwise disjoint, each start strictly greater than the previous end,
\* and their union is the union of [min(head, tail), one grapheme right of
\* max(head, tail)) over the input selections.
C23_MergedSortedDisjointCover ==
    last.op = "delete_sels" =>
        /\ \A i \in 1..Len(MergedSels) : MergedSels[i][1] <= MergedSels[i][2]
        /\ \A i \in 2..Len(MergedSels) : MergedSels[i][1] > MergedSels[i - 1][2]
        /\ UNION {MergedSels[i][1]..(MergedSels[i][2] - 1) : i \in 1..Len(MergedSels)}
             = UNION {SelMin(IteratedSels[i])..(OneRightOf(SelMax(IteratedSels[i])) - 1)
                         : i \in 1..Len(IteratedSels)}

\* C23, its case: three selections, iterated in an order that is not the
\* order of their starts, were merged into two intervals.
C23_Witness ==
    /\ last.op = "delete_sels"
    /\ Len(IteratedSels) = 3
    /\ SelMin(IteratedSels[1]) > SelMin(IteratedSels[3])
    /\ Len(MergedSels) = 2

\* The layers whose range covers the whole region, by position in last.layers
CoveringLayers(region) ==
    {i \in 1..Len(last.layers) :
        last.layers[i].start <= region.start /\ region.end <= last.layers[i].end}

\* The layer carries an attribute of the given kind
Carries(layer, kind) == \E j \in 1..Len(layer.attrs) : layer.attrs[j].a = kind

\* The points at which the layers put an attribute: a layer puts each of
\* its attributes at its start and at its end
LayeredPoints(layers) ==
    UNION {{layers[i].start, layers[i].end} : i \in {k \in 1..Len(layers) : layers[k].attrs # <<>>}}

\* The regions are sorted, disjoint and contiguous, and run from the
\* smallest to the largest layered point
RegionsSpan(regions, layers) ==
    /\ \A i \in 1..Len(regions) : regions[i].start < regions[i].end
    /\ \A i \in 1..(Len(regions) - 1) : regions[i].end = regions[i + 1].start
    /\ LayeredPoints(layers) # {} =>
         /\ regions # <<>>
         /\ regions[1].start = SetMin(LayeredPoints(layers))
         /\ -regions[Len(regions)].end = SetMin({-p : p \in LayeredPoints(layers)})
    /\ LayeredPoints(layers) = {} => regions = <<>>

\* Each region's highlight, fg and bg are set exactly when a layer covering
\* the region carries the attribute
RegionsCarry(regions) ==
    \A i \in 1..Len(regions) :
        LET over == {last.layers[k] : k \in CoveringLayers(regions[i])} IN
        /\ regions[i].style.highlight <=> \E l \in over : Carries(l, "Highlight")
        /\ regions[i].style.fg = NoColor <=> ~ \E l \in over : Carries(l, "Fg")
        /\ regions[i].style.bg = NoColor <=> ~ \E l \in over : Carries(l, "Bg")

\* C24: after any sequence of layer_region_style calls with start < end,
\* compute_regions returns sorted, pairwise disjoint, contiguous regions
\* whose union runs from the smallest to the largest layered point, and in
\* each region highlight, fg and bg are set exactly when a layer covering
\* the region carries Highlight, Fg or Bg.
C24_RegionsCoverLayers ==
    LET Layered(regions) == RegionsSpan(regions, last.layers) /\ RegionsCarry(regions)
    IN  Layered(compute_regions(stylization_points))

\* C24: the layers (0,10) with {Fg, Highlight} and then (0,20) with
\* {Highlight} have been layered and compute_regions returns the regions
\* (0,10,{fg,hl}) and (10,20,{hl}).
C24_Witness ==
    /\ last.layers = <<[start |-> 0, end |-> 10, attrs |-> <<Fg("red"), Highlight>>],
                       [start |-> 0, end |-> 20, attrs |-> <<Highlight>>]>>
    /\ compute_regions(stylization_points) =
         <<[start |-> 0, end |-> 10, style |-> ConcreteStyle("red", NoColor, TRUE)],
           [start |-> 10, end |-> 20, style |-> ConcreteStyle(NoColor, NoColor, TRUE)]>>

\* The colour of the layer's attribute of the given kind
ColorOf(layer, kind) ==
    layer.attrs[CHOOSE j \in 1..Len(layer.attrs) : layer.attrs[j].a = kind].color

\* The colour which the most recently layered of the layers covering the
\* region and carrying an attribute of the given kind gives it
LatestColor(region, kind) ==
    LET carrying == {k \in CoveringLayers(region) : Carries(last.layers[k], kind)}
    IN  IF carrying = {} THEN NoColor
        ELSE ColorOf(last.layers[-SetMin({-k : k \in carrying})], kind)

\* C25: in every region returned by compute_regions the foreground (resp.
\* background) colour is the Fg (resp. Bg) of the most recently layered
\* layer among those covering the region and carrying an Fg (resp. Bg).
C25_LatestLayerColours ==
    LET Latest(regions) ==
            \A i \in 1..Len(regions) :
                /\ regions[i].style.fg = LatestColor(regions[i], "Fg")
                /\ regions[i].style.bg = LatestColor(regions[i], "Bg")
    IN  Latest(compute_regions(stylization_points))

\* Every request sent so far has been received by the worker, in the order
\* of sending, or still waits in the queue
HandledInQueueOrder == last.handled \o incoming = last.sent

\* Every connection has been sent the messages broadcast so far, in the
\* order of the broadcasts: what its thread received followed by what is in
\* flight
SameMessagesInOrder ==
    \A c \in DOMAIN outgoing : subscribers[c].got \o outgoing[c] = last.log

\* A request leaves the queue only when the worker has nothing left to
\* broadcast for the request before it
DequeuesWhenDone ==
    last'.handled # last.handled
        => /\ worker.pc = "recv"
           /\ worker.outbox = <<>>
           /\ incoming # <<>>
           /\ incoming' = Tail(incoming)
           /\ last'.handled = Append(last.handled, Head(incoming))

\* C26: the worker handles the requests one at a time in queue order,
\* finishing the mutation and the broadcasts of one before it dequeues the
\* next, and every connection is sent the same sequence of messages in the
\* order of the broadcasts, whatever the interleaving of the renderer's
\* and the highlighter's requests.
C26_OneRequestAtATime ==
    /\ [](HandledInQueueOrder /\ SameMessagesInOrder)
    /\ [][DequeuesWhenDone]_vars

\* C26: the worker has handled a request of the highlighter followed by one
\* of the renderer, and both threads have received two messages or more.
C26_Witness ==
    /\ \E i, j \in 1..Len(last.handled) :
         i < j /\ last.handled[i].r = "StylizeEvent" /\ last.handled[j].r = "UIEvent"
    /\ \A c \in DOMAIN outgoing : Len(subscribers[c].got) >= 2
    /\ worker.pc = "recv"

\* An executed action has yielded a Quit result: QuitRequested is among the
\* messages the worker is about to broadcast
QuitYielded ==
    \E i \in 1..Len(worker.outbox) : worker.outbox[i].m = "QuitRequested"

\* QuitRequested has been broadcast
QuitBroadcast == \E i \in 1..Len(last.log) : last.log[i].m = "QuitRequested"

\* Nothing is broadcast after QuitRequested
QuitIsLast == \A i \in 1..(Len(last.log) - 1) : last.log[i].m # "QuitRequested"

\* Once QuitRequested is broadcast the worker receives no request
NoRequestAfterQuit == QuitBroadcast => last'.handled = last.handled /\ last'.log = last.log

\* The renderer has received QuitRequested and left its loop
RendererQuit ==
    /\ subscribers[Renderer].pc = "quit"
    /\ subscribers[Renderer].got # <<>>
    /\ subscribers[Renderer].got[Len(subscribers[Renderer].got)].m = "QuitRequested"

\* C27: when an executed action yields a Quit result, QuitRequested is
\* broadcast, the worker processes no further request, nothing is broadcast
\* after QuitRequested, and the renderer eventually receives QuitRequested
\* and exits its loop.
C27_QuitReachesRenderer ==
    /\ [](QuitIsLast)
    /\ [][NoRequestAfterQuit]_vars
    /\ (QuitYielded ~> QuitBroadcast)
    /\ (QuitBroadcast ~> RendererQuit)

\* The last key was Esc, received while a combo was pending
EscOnPendingCombo == last.op = "key" /\ last.evt = Esc /\ Len(pre.st.curr_combo) > 0

\* C28: update called with a combo of length > 1 that ends with an
\* unmodified Esc empties the combo and returns only ComboResetted, without
\* consulting the mode: the DocumentMap, the history stacks, the mode stack
\* and the mode's own state are unchanged.
C28_EscResetsCombo ==
    EscOnPendingCombo =>
        /\ ~last.panicked
        /\ last.err = "none"
        /\ last.results = <<ComboResetted>>
        /\ last.action = <<>>
        /\ curr_combo = <<>>
        /\ doc_map = pre.st.doc_map
        /\ prev = pre.st.prev
        /\ next = pre.st.next
        /\ active_modes = pre.st.active_modes
        /\ curr_cmd = pre.st.curr_cmd

\* C28: Esc has been pressed in NormalMode after a key that no binding
\* matches and that was therefore still pending.
C28_Witness ==
    /\ EscOnPendingCombo
    /\ pre.st.curr_combo = <<Key("Tab", NONE)>>
    /\ pre.st.active_modes = <<"normal">>
    /\ curr_combo = <<>>

\* The start of the grapheme cluster of buf that contains the character
\* index i: the last cluster boundary at or before i
ClusterStart(buf, i) ==
    SetMax({q \in 0..i : q = 0 \/ q = Len(buf) \/ BreakBefore(buf, q + 1)})

\* C29: for any character index i at which right_grapheme(i) is defined,
\* left_grapheme(right_grapheme(i)) is the start of the grapheme cluster
\* that contains i, also when that cluster is the last of the buffer and
\* spans several characters.
C29_LeftOfRightIsClusterStart ==
    (last.op = "left_grapheme" /\ pre.op = "right_grapheme" /\ pre.res # None)
        => last.res = ClusterStart(CurrDoc(doc_map).buf, pre.from)

\* The end of the grapheme cluster of buf that starts at i < Len(buf)
ClusterEnd(buf, i) == SetMin({q \in (i + 1)..Len(buf) : IsBoundary(buf, q)})

\* The grapheme clusters of buf between the boundaries lo and hi, in order
RECURSIVE ClustersBetween(_, _, _)
ClustersBetween(buf, lo, hi) ==
    IF lo >= hi THEN <<>>
    ELSE <<Slice(buf, lo, ClusterEnd(buf, lo))>> \o ClustersBetween(buf, ClusterEnd(buf, lo), hi)

IsPrefixOf(s, t) == Len(s) <= Len(t) /\ s = SubSeq(t, 1, Len(s))

\* The calls so far returned the first items of expected, and None only
\* after all of them
YieldsThenNone(expected) ==
    /\ IsPrefixOf(last.yields, expected)
    /\ last.done => last.yields = expected

IterBuf == CurrDoc(doc_map).buf

CreatedAtBoundary(reverse) ==
    /\ last.revs = 0
    /\ last.stop = "none"
    /\ last.reverse = reverse
    /\ IsBoundary(IterBuf, last.init_char_idx)

ForwardYieldsClusters ==
    CreatedAtBoundary(FALSE)
        => YieldsThenNone(ClustersBetween(IterBuf, last.init_char_idx, Len(IterBuf)))

\* C30 as stated: a forward iterator created at a grapheme boundary i yields
\* the clusters from i to the end in order and then None; a reversed
\* iterator created at any grapheme boundary i yields the cluster starting
\* at i (if there is one), then the preceding clusters in reverse order
\* down to the first one, and then None.
C30_IteratorYieldsClusters ==
    /\ ForwardYieldsClusters
    /\ CreatedAtBoundary(TRUE)
        => YieldsThenNone(Reverse(ClustersBetween(IterBuf, 0,
               IF last.init_char_idx < Len(IterBuf)
               THEN ClusterEnd(IterBuf, last.init_char_idx) ELSE Len(IterBuf))))

\* C30 amended: the forward part as stated; a reversed iterator created at
\* a boundary i before the end of the buffer yields the cluster starting at
\* i, then the preceding clusters in reverse order, then None; created at
\* the end of a non-empty buffer it yields one empty string before the
\* clusters in reverse order.
C30_IteratorYieldsClustersAmended ==
    /\ ForwardYieldsClusters
    /\ (CreatedAtBoundary(TRUE) /\ last.init_char_idx < Len(IterBuf))
        => YieldsThenNone(Reverse(ClustersBetween(IterBuf, 0,
                                                  ClusterEnd(IterBuf, last.init_char_idx))))
    /\ (CreatedAtBoundary(TRUE) /\ last.init_char_idx = Len(IterBuf))
        => YieldsThenNone(IF IterBuf = <<>> THEN <<>>
                          ELSE <<<<>>>> \o Reverse(ClustersBetween(IterBuf, 0, Len(IterBuf))))

\* A reversed iterator created before a cluster of several characters that
\* is not the first one has yielded every cluster down to the first one and
\* then None
C30_Witness ==
    /\ CreatedAtBoundary(TRUE)
    /\ IterBuf = <<"a", "b", "cm">>
    /\ last.init_char_idx = 1
    /\ last.yields = <<<<"b", "cm">>, <<"a">>>>
    /\ last.done

\* C31: on a non-empty buffer, once the iterator has returned None at the
\* end (start) of the buffer, reversing it makes the following calls yield
\* exactly one empty string, then every grapheme cluster from the last to
\* the first (first to last), then None; also after several such reversals.
C31_ReversalAtBoundary ==
    (last.revs > 0 /\ last.after_none /\ IterBuf # <<>>)
        => YieldsThenNone(<<<<>>>> \o (IF pending.rev
                                       THEN Reverse(ClustersBetween(IterBuf, 0, Len(IterBuf)))
                                       ELSE ClustersBetween(IterBuf, 0, Len(IterBuf))))

\* An iterator reversed at the end and then at the start of the buffer has
\* yielded the empty string, the clusters from first to last and None
C31_Witness ==
    /\ last.revs = 2
    /\ last.after_none
    /\ last.done
    /\ IterBuf = <<"a", "cm", "b">>
    /\ last.yields = <<<<>>, <<"a", "cm">>, <<"b">>>>

\* The number of leading clusters after which the accumulated string first
\* satisfies pred; 0 when it never does
FirstHit(clusters, pred) ==
    LET hits == {k \in 1..Len(clusters) : Holds(pred, Flatten(SubSeq(clusters, 1, k)))}
    IN  IF hits = {} THEN 0 ELSE SetMin(hits)

\* stop_at or stop_before was called on a forward iterator that was created
\* at a grapheme boundary and advanced by next() only
StoppedForward(op) ==
    /\ last.stop = op
    /\ last.revs = 0
    /\ ~last.reverse
    /\ IsBoundary(IterBuf, last.init_char_idx)

\* The clusters ahead of the iterator when it was stopped
Ahead == ClustersBetween(IterBuf, pre.r0, Len(IterBuf))

\* The start of the cluster whose addition first satisfied the predicate
HitStart == pre.r0 + Len(Flatten(SubSeq(Ahead, 1, FirstHit(Ahead, last.pred) - 1)))

\* The cluster of IterBuf that ends at the boundary idx > 0
ClusterBefore(idx) == Slice(IterBuf, ClusterStart(IterBuf, idx - 1), idx)

\* The first calls after the stop returned the items of expected
YieldsBegin(expected) ==
    IF Len(last.yields) < Len(expected)
    THEN IsPrefixOf(last.yields, expected) /\ ~last.done
    ELSE IsPrefixOf(expected, last.yields)

StopAtLands ==
    StoppedForward("stop_at")
        => IF FirstHit(Ahead, last.pred) > 0
           THEN last.idx = HitStart /\ YieldsBegin(<<Ahead[FirstHit(Ahead, last.pred)]>>)
           ELSE last.at_eof /\ last.yields = <<>>

C33_NewlineBeforeEveryHead ==
    LET old == CurrDoc(pre.st.doc_map)
        new == CurrDoc(doc_map)
    IN  (/\ last.op = "insert_newline"
         /\ AllCursors(old)
         /\ Cardinality(DOMAIN old.selections) >= 2
         /\ \A i, j \in DOMAIN old.selections :
                i # j => old.selections[i].head # old.selections[j].head)
            => /\ last.some
               /\ new.buf = InsertedAtHeads(old.buf, old, <<"nl">>, 0)

\* C34: lower_grapheme_or_end keeps the visual column: on the rope
\* "abcd\n\txy", from the head index 3 on line 0 it returns the start of
\* line 1 plus 1, the first character after the tab.
C34_LowerKeepsColumn ==
    (/\ last.op = "lower_grapheme_or_end"
     /\ CurrDoc(doc_map).buf = TabbedBuf
     /\ last.from = 3)
        => last.res = try_line_to_char(TabbedBuf, 1) + 1

\* The worker has just applied a UIEvent that changed the mode stack, the
\* DocumentMap or the history
UIEventChangedState ==
    /\ last.op = "recv"
    /\ last.handled[Len(last.handled)].r = "UIEvent"
    /\ \/ active_modes # pre.st.active_modes
       \/ doc_map # pre.st.doc_map
       \/ prev # pre.st.prev
       \/ next # pre.st.next

\* C35: whenever processing a UIEvent changes the mode stack, the
\* DocumentMap or the history, the worker broadcasts for that event at least
\* one EditorResult message carrying a summary of the state after the
\* change, also when a later command of the same action fails.
C35_ChangeIsBroadcast ==
    UIEventChangedState
        => \E i \in 1..Len(worker.outbox) :
               /\ worker.outbox[i].m = "EditorResult"
               /\ worker.outbox[i].summary = summarize(Snapshot, view)

\* The number of Transaction commands in action
TxCommands(action) == Cardinality({i \in 1..Len(action) : action[i].c = "Transaction"})

\* C36: one Undo reverts the whole effect of the most recently executed key
\* binding: after a binding whose action applied several Transaction
\* commands (NormalMode d), an undo succeeds and restores the buffer and the
\* selections present before the key was pressed.
C36_UndoRevertsBinding ==
    (/\ last.op = "key"
     /\ last.err = "none"
     /\ ~last.panicked
     /\ TxCommands(last.action) >= 2)
        => LET u == undo(Snapshot)
           IN  u.some /\ SameDocMap(u.st.doc_map, pre.st.doc_map)

\* C37: when a non-empty forward transaction fails to apply
\* (modify_with_tx returns false), both history stacks are as they were:
\* prev is unchanged and the redo stack still holds its transactions.
C37_FailedTxKeepsHistory ==
    (last.op = "modify_with_tx" /\ last.tx # <<>> /\ ~last.ok)
        => prev = pre.st.prev /\ next = pre.st.next

\* C38: right after start-up the undo history is empty: the first Undo
\* command surfaces UndoError and the loaded document stays the current
\* document, its content unchanged.
C38_FreshHistoryIsEmpty ==
    (last.op = "cmd" /\ nsteps = 1 /\ last.cmd = UndoCurrDocument)
        => /\ pre.st.prev = <<>>
           /\ last.err = "UndoError"
           /\ SameDocMap(doc_map, pre.st.doc_map)

\* The ids of the documents on which tx has a text primitive
TextDocs(tx) == {tx[i].doc : i \in {j \in 1..Len(tx) : tx[j].k \in {"InsText", "DelRange"}}}

\* C39: after a successfully applied transaction that contains a text
\* primitive (InsText or DelRange) on a document, the dirty flag of that
\* document is true.
C39_TextModSetsDirty ==
    (last.op = "modify_with_tx" /\ last.ok)
        => \A id \in TextDocs(last.tx) \cap DOMAIN doc_map.docs : doc_map.docs[id].dirty

\* The grapheme cluster of buf that starts at the boundary s < Len(buf)
\* ends with the character target
ClusterEndsWith(buf, s, target) == buf[ClusterEnd(buf, s)] = target

\* The boundaries whose clusters a scan from the boundary from visits:
\* rightwards the cluster at from and those after it, leftwards the cluster
\* at from and those before it
Scanned(buf, from, op) ==
    {s \in 0..(Len(buf) - 1) :
        IsBoundary(buf, s) /\ (IF op = "right_occurrence" THEN s >= from ELSE s <= from)}

\* C40: right_occurrence and left_occurrence return Some(j) only when the
\* grapheme at index j ends with target; when target does not occur in the
\* scanned direction they return None and the head stays where it was.
C40_OccurrenceOrNone ==
    LET buf == CurrDoc(doc_map).buf IN
    (last.op \in {"right_occurrence", "left_occurrence"} /\ IsBoundary(buf, last.from))
        => /\ last.res # None
               => last.res < Len(buf) /\ IsBoundary(buf, last.res)
                      /\ ClusterEndsWith(buf, last.res, last.target)
           /\ (\A s \in Scanned(buf, last.from, last.op) : ~ClusterEndsWith(buf, s, last.target))
               => last.res = None /\ CurrDoc(doc_map).selections[0].head = last.from

====
